---- MODULE Spec2Model ----
(***************************************************************************)
(* Pluto backend: the gated scraping pipeline (waitForTurn, getBrowser,    *)
(* extractConversationData), the multi-key completion dispatcher           *)
(* (callLlamaSmart), the three route handlers (/api/initialize, /api/chat, *)
(* /api/debug) and sanitizeScrapedContent.  Node.js runs the handlers on   *)
(* one thread: every action below is the code that runs between two        *)
(* suspension points (await), and the awaited external call's outcome is   *)
(* chosen by \E.                                                           *)
(***************************************************************************)
EXTENDS Integers, Naturals, Sequences, FiniteSets, TLC

\* ------------------------------------------------------------------ bounds
\* concurrent extractConversationData calls
NumTasks == 3
\* browsers puppeteer.launch may hand out in one run
MaxLaunches == 2

\* concurrent callLlamaSmart calls
NumDispatches == 2
\* largest credential pool (LLAMA_API_KEY, comma separated)
MaxKeys == 2

\* ------------------------------------------------------- program constants
\* (variant: a ceiling that lets two scrapes run side by side)
TwoScrapesAtATime == 1 + 1
MAX_CONCURRENT_SCRAPES == 1

MODELS == <<"llama-3.3-70b-versatile", "llama3-70b-8192", "llama3-8b-8192">>

Tasks == 1..NumTasks
Dispatches == 1..NumDispatches
\* the dispatch whose record is kept
Observed == CHOOSE d \in Dispatches : TRUE

VARIABLES
    activeScrapes,   \* let activeScrapes
    globalBrowser,   \* let globalBrowser: 0 is null, else a browser id
    connectedSet,    \* browsers whose isConnected() is true
    launched,        \* browsers handed out by puppeteer.launch so far
    pc,              \* per task: the await it is suspended at
    page,            \* per task: let page: "undefined", "open", "closed"
    browser,         \* per task: const browser (0 before getBrowser returned)
    released,        \* per task: how many times it ran activeScrapes--
    result,          \* per task: how the call settled
    nKeys,           \* API_KEYS.length; the credentials are indexed 0..nKeys-1
    currentKeyIndex, \* let currentKeyIndex
    dpc,             \* per dispatch: the await it is suspended at
    modelIdx,        \* per dispatch: index in MODELS of modelName
    keysTriedForThisModel, \* per dispatch: the local of tryModelWithRotation
    \* What follows is kept for one dispatch, the observed one (the dispatches
    \* are interchangeable, so what holds of it holds of each): two locals the
    \* code never reads back after the fetch is issued, and a record of its run
    currentKey,      \* index of const currentKey of its last attempt
    thrown,          \* the error tryModelWithRotation threw to its tier loop
    lastError,       \* its let lastError
    requests,        \* fetch calls it issued
    rotations,       \* rotateKey calls it made
    onlyRateLimits,  \* every answer it got so far was a rate-limit signal
    firstLimitsSecondServes, \* so far credential 0 answered only rate-limit
                     \* signals and credential 1 only successes
    attempted,       \* credentials it used on its current tier
    response,        \* <<tier, credential>> of the result it returned
    afterEnd,        \* some dispatch had ended when it was called
    caught,          \* the error its inner catch swallowed on the tier's last
                     \* credential, while the tier's failure is being handled
    sent,            \* the message sequences its requests carried
    \* one HTTP request, from its arrival to its response
    route,           \* "initialize", "chat" or "debug" ("none" before it arrives)
    variant,         \* the snapshot of /api/initialize that serves it
    links,           \* req.body.links: per link, whether l.url is truthy
    historyOk,       \* req.body.history is an array
    body,            \* req.body of /api/chat: foundation and history
    rpc,             \* the await the handler is suspended at
    cur,             \* the link whose extraction the sequential loop awaits
    transcripts,     \* const transcripts
    finished,        \* the links in the order their extractions settled
    prompt,          \* the user message handed to the dispatcher
    content,         \* result.choices?.[0]?.message?.content
    reply,           \* what res.json sent
    responses,       \* how many times res.json ran
    extractions,     \* extractConversationData calls the handler made
    \* one call of sanitizeScrapedContent
    arg,             \* what was passed: "undefined", "null" or "string"
    text,            \* the string passed, as a sequence of code points
    fragments,       \* how many pieces the string was put together from
    clean,           \* what the call returned (Pending before it ran)
    \* one dispatch of a single-key snapshot: callLlamaWithRetry of server.js
    \* or the callLlamaSmart of part_005
    spc,             \* the await it is suspended at, or how it ended
    modelName,       \* index in MODELS of tryCall's modelName
    attempt,         \* let i of the retry loop
    waited,          \* the delays it has waited, in order
    asked,           \* per request it issued, the index of the model asked
    answers,         \* per request answered, the answer
    err,             \* message of lastError, then of the error it threw
    \* the callers of waitForTurn, by arrival
    queue,           \* the tasks suspended in waitForTurn, earliest first
    overtaken,       \* per waiting task: how many later arrivals got the
                     \* permit since it began to wait (counted to MaxOvertakes)
    viaQueue         \* the permit was last taken by a task that had waited

scrapeVars == <<activeScrapes, globalBrowser, connectedSet, launched,
                pc, page, browser, released, result>>

dispatchVars == <<nKeys, currentKeyIndex, dpc, modelIdx,
                  keysTriedForThisModel, currentKey, thrown, lastError, requests,
                  rotations, onlyRateLimits, firstLimitsSecondServes,
                  attempted, response, afterEnd, caught, sent>>

routeVars == <<route, variant, links, historyOk, body, rpc, cur, transcripts,
               finished, prompt, content, reply, responses, extractions>>

sanitizeVars == <<arg, text, fragments, clean>>

\* a dispatch of the single-key snapshots
singleVars == <<spc, modelName, attempt, waited, asked, answers, err>>

\* the order of arrival at the gate of waitForTurn
gateVars == <<queue, overtaken, viaQueue>>

vars == <<scrapeVars, dispatchVars, routeVars, sanitizeVars, singleVars,
          gateVars>>

\* ------------------------------------------------------------------- Init
InitScrape ==
    /\ activeScrapes = 0
    /\ globalBrowser = 0
    /\ connectedSet = {}
    /\ launched = 0
    /\ pc = [t \in Tasks |-> "idle"]
    /\ page = [t \in Tasks |-> "undefined"]
    /\ browser = [t \in Tasks |-> 0]
    /\ released = [t \in Tasks |-> 0]
    /\ result = [t \in Tasks |-> "pending"]

InitDispatch ==
    /\ nKeys \in 0..MaxKeys
    /\ currentKeyIndex = 0
    /\ dpc = [d \in Dispatches |-> "idle"]
    /\ modelIdx = [d \in Dispatches |-> 1]
    /\ keysTriedForThisModel = [d \in Dispatches |-> 0]
    /\ currentKey = 0
    /\ thrown = "none"
    /\ lastError = "null"
    /\ requests = 0
    /\ rotations = 0
    /\ onlyRateLimits = TRUE
    /\ firstLimitsSecondServes = TRUE
    /\ attempted = {}
    /\ response = <<0, 0>>
    /\ afterEnd = FALSE
    /\ caught = "none"
    /\ sent = {}

\* content and trace values: a string is a sequence of characters
Undefined == [defined |-> FALSE, chars |-> <<>>]
String(cs) == [defined |-> TRUE, chars |-> cs]

NoBody == [foundation |-> "", history |-> <<>>]
NoPrompt == [mode |-> "none", texts |-> <<>>]
NoReply == [status |-> 0, success |-> FALSE, payload |-> Undefined,
            error |-> "none"]

InitRoute ==
    /\ route = "none"
    /\ variant = "none"
    /\ links = <<>>
    /\ historyOk = TRUE
    /\ body = NoBody
    /\ rpc = "idle"
    /\ cur = 0
    /\ transcripts = <<>>
    /\ finished = <<>>
    /\ prompt = NoPrompt
    /\ content = Undefined
    /\ reply = NoReply
    /\ responses = 0
    /\ extractions = 0

\* the value of clean while the call has not run
Pending == <<-1>>

InitSanitize ==
    /\ arg = "string"
    /\ text = <<>>
    /\ fragments = 0
    /\ clean = Pending

InitSingle ==
    /\ spc = "idle"
    /\ modelName = 1
    /\ attempt = 0
    /\ waited = <<>>
    /\ asked = <<>>
    /\ answers = <<>>
    /\ err = <<>>

InitGate ==
    /\ queue = <<>>
    /\ overtaken = [t \in Tasks |-> 0]
    /\ viaQueue = FALSE

Init ==
    /\ InitScrape
    /\ InitDispatch
    /\ InitRoute
    /\ InitSanitize
    /\ InitSingle
    /\ InitGate

\* ------------------------------------------------------------ waitForTurn
\* (variant: the loop condition written with > instead of >=)
GateOpenOffByOne == activeScrapes <= MAX_CONCURRENT_SCRAPES
\* the negated loop condition of waitForTurn
GateOpen == activeScrapes < MAX_CONCURRENT_SCRAPES

\* One turn of waitForTurn's loop, run from the call or from a fired timer:
\* the test and the increment run with no await between them.
waitForTurn(t) ==
    IF GateOpen
    THEN /\ activeScrapes' = activeScrapes + 1
         /\ pc' = [pc EXCEPT ![t] = "turn"]
    ELSE /\ pc' = [pc EXCEPT ![t] = "wait"]
         /\ UNCHANGED activeScrapes

\* extractConversationData(url) is called: let page; await waitForTurn()
Call(t) ==
    /\ UNCHANGED <<dispatchVars, routeVars, sanitizeVars, singleVars, gateVars>>
    /\ pc[t] = "idle"
    /\ waitForTurn(t)
    /\ UNCHANGED <<globalBrowser, connectedSet, launched, page, browser,
                   released, result>>

\* the 1000 ms timer of a waiting task fires
Poll(t) ==
    /\ UNCHANGED <<dispatchVars, routeVars, sanitizeVars, singleVars, gateVars>>
    /\ pc[t] = "wait"
    /\ waitForTurn(t)
    /\ UNCHANGED <<globalBrowser, connectedSet, launched, page, browser,
                   released, result>>

\* ---------------------------------------------------- the catch block
\* catch (e) { if (page) await page.close(); activeScrapes--; return DATA_ERROR }
\* entered with the exception thrown by an awaited call of the try block
Catch(t) ==
    IF page[t] = "undefined"
    THEN /\ activeScrapes' = activeScrapes - 1
         /\ released' = [released EXCEPT ![t] = @ + 1]
         /\ result' = [result EXCEPT ![t] = "DATA_ERROR"]
         /\ pc' = [pc EXCEPT ![t] = "done"]
    ELSE /\ pc' = [pc EXCEPT ![t] = "catchClose"]
         /\ UNCHANGED <<activeScrapes, released, result>>

\* -------------------------------------------------------------- getBrowser
\* (variant: no reuse test, every call launches)
BrowserLiveNever == FALSE
\* globalBrowser && globalBrowser.isConnected()
BrowserLive == globalBrowser # 0 /\ globalBrowser \in connectedSet

\* the task resumes after waitForTurn and calls getBrowser(): a live handle
\* is returned and browser.newPage() is issued; otherwise puppeteer.launch
GetBrowser(t) ==
    /\ UNCHANGED <<dispatchVars, routeVars, sanitizeVars, singleVars, gateVars>>
    /\ pc[t] = "turn"
    /\ IF BrowserLive
       THEN /\ browser' = [browser EXCEPT ![t] = globalBrowser]
            /\ pc' = [pc EXCEPT ![t] = "newPage"]
       ELSE /\ pc' = [pc EXCEPT ![t] = "launch"]
            /\ UNCHANGED browser
    /\ UNCHANGED <<activeScrapes, globalBrowser, connectedSet, launched,
                   page, released, result>>

\* (variant: the launched browser is returned but not kept in globalBrowser)
LaunchOkNotStored(t) ==
    /\ UNCHANGED <<dispatchVars, routeVars, sanitizeVars, singleVars, gateVars>>
    /\ pc[t] = "launch"
    /\ launched < MaxLaunches
    /\ launched' = launched + 1
    /\ connectedSet' = connectedSet \cup {launched + 1}
    /\ browser' = [browser EXCEPT ![t] = launched + 1]
    /\ pc' = [pc EXCEPT ![t] = "newPage"]
    /\ UNCHANGED <<activeScrapes, globalBrowser, page, released, result>>

\* puppeteer.launch resolves: globalBrowser = <new browser>; return it,
\* and the caller issues browser.newPage()
LaunchOk(t) ==
    /\ UNCHANGED <<dispatchVars, routeVars, sanitizeVars, singleVars, gateVars>>
    /\ pc[t] = "launch"
    /\ launched < MaxLaunches
    /\ launched' = launched + 1
    /\ globalBrowser' = launched + 1
    /\ connectedSet' = connectedSet \cup {launched + 1}
    /\ browser' = [browser EXCEPT ![t] = launched + 1]
    /\ pc' = [pc EXCEPT ![t] = "newPage"]
    /\ UNCHANGED <<activeScrapes, page, released, result>>

\* (variant: getBrowser awaited before the try block, so that a rejected
\* launch leaves extractConversationData with nothing released)
LaunchFailOutsideTry(t) ==
    /\ UNCHANGED <<dispatchVars, routeVars, sanitizeVars, singleVars, gateVars>>
    /\ pc[t] = "launch"
    /\ result' = [result EXCEPT ![t] = "rejected"]
    /\ pc' = [pc EXCEPT ![t] = "done"]
    /\ UNCHANGED <<activeScrapes, globalBrowser, connectedSet, launched,
                   page, browser, released>>

\* puppeteer.launch rejects: the assignment never runs, the try block throws
LaunchFail(t) ==
    /\ UNCHANGED <<dispatchVars, routeVars, sanitizeVars, singleVars, gateVars>>
    /\ pc[t] = "launch"
    /\ Catch(t)
    /\ UNCHANGED <<globalBrowser, connectedSet, launched, page, browser>>

\* a browser process dies or its connection drops
Disconnect(b) ==
    /\ UNCHANGED <<dispatchVars, routeVars, sanitizeVars, singleVars, gateVars>>
    /\ b \in connectedSet
    /\ connectedSet' = connectedSet \ {b}
    /\ UNCHANGED <<activeScrapes, globalBrowser, launched, pc, page, browser,
                   released, result>>

\* ------------------------------------------------- extractConversationData
\* page = await browser.newPage()
NewPageOk(t) ==
    /\ UNCHANGED <<dispatchVars, routeVars, sanitizeVars, singleVars, gateVars>>
    /\ pc[t] = "newPage"
    /\ page' = [page EXCEPT ![t] = "open"]
    /\ pc' = [pc EXCEPT ![t] = "setUserAgent"]
    /\ UNCHANGED <<activeScrapes, globalBrowser, connectedSet, launched,
                   browser, released, result>>

NewPageFail(t) ==
    /\ UNCHANGED <<dispatchVars, routeVars, sanitizeVars, singleVars, gateVars>>
    /\ pc[t] = "newPage"
    /\ Catch(t)
    /\ UNCHANGED <<globalBrowser, connectedSet, launched, page, browser>>

\* the awaited page calls of the try block, in order, and what follows each
NextAwait(p) ==
    CASE p = "setUserAgent" -> "setRequestInterception"
      [] p = "setRequestInterception" -> "goto"
      [] p = "goto" -> "scroll"
      [] p = "scroll" -> "settle"
      [] p = "settle" -> "harvest"
      [] p = "harvest" -> "close"

PageAwaits == {"setUserAgent", "setRequestInterception", "goto", "scroll",
               "settle", "harvest"}

\* an awaited call on the page resolves and the next one is issued
PageStepOk(t) ==
    /\ UNCHANGED <<dispatchVars, routeVars, sanitizeVars, singleVars, gateVars>>
    /\ pc[t] \in PageAwaits
    /\ pc' = [pc EXCEPT ![t] = NextAwait(pc[t])]
    /\ UNCHANGED <<activeScrapes, globalBrowser, connectedSet, launched,
                   page, browser, released, result>>

\* an awaited call on the page rejects (the 4000 ms settle timer cannot)
PageStepFail(t) ==
    /\ UNCHANGED <<dispatchVars, routeVars, sanitizeVars, singleVars, gateVars>>
    /\ pc[t] \in PageAwaits \ {"settle"}
    /\ Catch(t)
    /\ UNCHANGED <<globalBrowser, connectedSet, launched, page, browser>>

\* await page.close() resolves; activeScrapes--; return sanitized text
CloseOk(t) ==
    /\ UNCHANGED <<dispatchVars, routeVars, sanitizeVars, singleVars, gateVars>>
    /\ pc[t] = "close"
    /\ page' = [page EXCEPT ![t] = "closed"]
    /\ activeScrapes' = activeScrapes - 1
    /\ released' = [released EXCEPT ![t] = @ + 1]
    /\ result' = [result EXCEPT ![t] = "text"]
    /\ pc' = [pc EXCEPT ![t] = "done"]
    /\ UNCHANGED <<globalBrowser, connectedSet, launched, browser>>

\* (variant: activeScrapes-- runs ahead of page.close() in the try block, so
\* that a rejected close has released once when the catch block starts)
CloseFailReleasedBefore(t) ==
    /\ UNCHANGED <<dispatchVars, routeVars, sanitizeVars, singleVars, gateVars>>
    /\ pc[t] = "close"
    /\ activeScrapes' = activeScrapes - 1
    /\ released' = [released EXCEPT ![t] = @ + 1]
    /\ pc' = [pc EXCEPT ![t] = "catchClose"]
    /\ UNCHANGED <<globalBrowser, connectedSet, launched, page, browser, result>>

\* await page.close() of the try block rejects: the page is not known closed
CloseFail(t) ==
    /\ UNCHANGED <<dispatchVars, routeVars, sanitizeVars, singleVars, gateVars>>
    /\ pc[t] = "close"
    /\ Catch(t)
    /\ UNCHANGED <<globalBrowser, connectedSet, launched, page, browser>>

\* the catch block's page.close() resolves; activeScrapes--; return DATA_ERROR
CatchCloseOk(t) ==
    /\ UNCHANGED <<dispatchVars, routeVars, sanitizeVars, singleVars, gateVars>>
    /\ pc[t] = "catchClose"
    /\ page' = [page EXCEPT ![t] = "closed"]
    /\ activeScrapes' = activeScrapes - 1
    /\ released' = [released EXCEPT ![t] = @ + 1]
    /\ result' = [result EXCEPT ![t] = "DATA_ERROR"]
    /\ pc' = [pc EXCEPT ![t] = "done"]
    /\ UNCHANGED <<globalBrowser, connectedSet, launched, browser>>

\* (variant: the decrement sits in a finally block, so that a rejected
\* page.close() of the catch block still releases the permit)
CatchCloseFailReleasing(t) ==
    /\ UNCHANGED <<dispatchVars, routeVars, sanitizeVars, singleVars, gateVars>>
    /\ pc[t] = "catchClose"
    /\ activeScrapes' = activeScrapes - 1
    /\ released' = [released EXCEPT ![t] = @ + 1]
    /\ result' = [result EXCEPT ![t] = "rejected"]
    /\ pc' = [pc EXCEPT ![t] = "done"]
    /\ UNCHANGED <<globalBrowser, connectedSet, launched, page, browser>>

\* the catch block's page.close() rejects: nothing catches it, the
\* statements after it never run and the call's promise is rejected
CatchCloseFail(t) ==
    /\ UNCHANGED <<dispatchVars, routeVars, sanitizeVars, singleVars, gateVars>>
    /\ pc[t] = "catchClose"
    /\ result' = [result EXCEPT ![t] = "rejected"]
    /\ pc' = [pc EXCEPT ![t] = "done"]
    /\ UNCHANGED <<activeScrapes, globalBrowser, connectedSet, launched,
                   page, browser, released>>

NextScrape ==
    \/ \E t \in Tasks : Call(t)
    \/ \E t \in Tasks : Poll(t)
    \/ \E t \in Tasks : GetBrowser(t)
    \/ \E t \in Tasks : LaunchOk(t)
    \/ \E t \in Tasks : LaunchFail(t)
    \/ \E b \in 1..MaxLaunches : Disconnect(b)
    \/ \E t \in Tasks : NewPageOk(t)
    \/ \E t \in Tasks : NewPageFail(t)
    \/ \E t \in Tasks : PageStepOk(t)
    \/ \E t \in Tasks : PageStepFail(t)
    \/ \E t \in Tasks : CloseOk(t)
    \/ \E t \in Tasks : CloseFail(t)
    \/ \E t \in Tasks : CatchCloseOk(t)
    \/ \E t \in Tasks : CatchCloseFail(t)

SpecScrape == Init /\ [][NextScrape]_vars

\* ========================================================= callLlamaSmart
\* what an awaited fetch + response.json() can come to
\*   ok        2xx, body parsed, no rate-limit marker
\*   ratelimit status 429, or body.error.type = rate_limit_reached
\*   error     non-2xx status, unparsable body, or a network failure whose
\*             message does not hold the word fetch
\*   fetcherr  a failure whose message holds the word fetch
Outcomes == {"ok", "ratelimit", "error", "fetcherr"}

Terminal == {"returned", "threw"}

\* (variant: the cursor is advanced without wrapping around)
rotateKeyUnwrapped == currentKeyIndex + 1

\* const rotateKey = () => { currentKeyIndex = (currentKeyIndex + 1) % API_KEYS.length }
rotateKey == (currentKeyIndex + 1) % nKeys

\* (variant: the loop test lets a tier make one attempt more than there are
\* credentials)
tryModelWithRotationOnceMore(d, tier, tried, cursor, used) ==
    /\ modelIdx' = [modelIdx EXCEPT ![d] = tier]
    /\ IF tried < nKeys \/ (tried = nKeys /\ nKeys > 0)
       THEN /\ keysTriedForThisModel' = [keysTriedForThisModel EXCEPT ![d] = tried]
            /\ currentKey' = IF d = Observed THEN cursor ELSE currentKey
            /\ dpc' = [dpc EXCEPT ![d] = "fetch"]
            /\ requests' = IF d = Observed THEN requests + 1 ELSE requests
            /\ attempted' = IF d = Observed THEN used \cup {cursor} ELSE attempted
            /\ sent' = IF d = Observed THEN sent \cup {prompt.texts} ELSE sent
            /\ UNCHANGED thrown
       ELSE /\ keysTriedForThisModel' = [keysTriedForThisModel EXCEPT ![d] = 0]
            /\ dpc' = [dpc EXCEPT ![d] = "tierFail"]
            /\ thrown' = IF d = Observed THEN "AllKeysExhausted" ELSE thrown
            /\ UNCHANGED currentKey
            /\ attempted' = IF d = Observed THEN used ELSE attempted
            /\ UNCHANGED <<requests, sent>>

\* while (keysTriedForThisModel < API_KEYS.length) { const currentKey =
\* API_KEYS[currentKeyIndex]; ... await fetch(...) } throw AllKeysExhausted:
\* the loop test and what follows it, run with the tier, the count and the
\* cursor as they are at that point (used: the tier's credentials so far)
tryModelWithRotation(d, tier, tried, cursor, used) ==
    /\ modelIdx' = [modelIdx EXCEPT ![d] = tier]
    /\ IF tried < nKeys
       THEN /\ keysTriedForThisModel' = [keysTriedForThisModel EXCEPT ![d] = tried]
            /\ currentKey' = IF d = Observed THEN cursor ELSE currentKey
            /\ dpc' = [dpc EXCEPT ![d] = "fetch"]
            /\ requests' = IF d = Observed THEN requests + 1 ELSE requests
            /\ attempted' = IF d = Observed THEN used \cup {cursor} ELSE attempted
            /\ sent' = IF d = Observed THEN sent \cup {prompt.texts} ELSE sent
            /\ UNCHANGED thrown
       ELSE /\ keysTriedForThisModel' = [keysTriedForThisModel EXCEPT ![d] = 0]
            /\ dpc' = [dpc EXCEPT ![d] = "tierFail"]
            /\ thrown' = IF d = Observed THEN "AllKeysExhausted" ELSE thrown
            /\ UNCHANGED currentKey
            /\ attempted' = IF d = Observed THEN used ELSE attempted
            /\ UNCHANGED <<requests, sent>>

\* (variant: the cursor is put back on the first credential at each call)
callLlamaSmartResetting(d) ==
    /\ dpc[d] = "idle"
    /\ currentKeyIndex' = 0
    /\ tryModelWithRotation(d, 1, 0, 0, {})
    /\ afterEnd' = IF d = Observed
                   THEN \E e \in Dispatches : dpc[e] \in Terminal
                   ELSE afterEnd
    /\ UNCHANGED <<nKeys, lastError, rotations, onlyRateLimits,
                   firstLimitsSecondServes, response, caught>>
    /\ UNCHANGED <<scrapeVars, routeVars, sanitizeVars, singleVars, gateVars>>

\* callLlamaSmart(messages) is called: the first tier's first attempt
callLlamaSmart(d) ==
    /\ dpc[d] = "idle"
    /\ tryModelWithRotation(d, 1, 0, currentKeyIndex, {})
    /\ afterEnd' = IF d = Observed
                   THEN \E e \in Dispatches : dpc[e] \in Terminal
                   ELSE afterEnd
    /\ UNCHANGED <<nKeys, currentKeyIndex, lastError, rotations,
                   onlyRateLimits, firstLimitsSecondServes, response, caught>>
    /\ UNCHANGED <<scrapeVars, routeVars, sanitizeVars, singleVars, gateVars>>

\* the record of the observed dispatch after credential k answered with o
Answered(d, k, o) ==
    /\ onlyRateLimits' = IF d = Observed
                         THEN onlyRateLimits /\ o = "ratelimit"
                         ELSE onlyRateLimits
    /\ firstLimitsSecondServes' =
           IF d = Observed
           THEN /\ firstLimitsSecondServes
                /\ k = 0 => o = "ratelimit"
                /\ k = 1 => o = "ok"
                /\ k \in {0, 1}
           ELSE firstLimitsSecondServes
    /\ caught' = IF d # Observed THEN caught
                 ELSE IF o = "error" /\ ~(keysTriedForThisModel[d] + 1 < nKeys)
                      THEN "API Error"
                      ELSE "none"

\* (variant: the cursor also moves on after a success)
ResponseOkRotating(d) ==
    /\ dpc[d] = "fetch"
    /\ Answered(d, currentKey, "ok")
    /\ currentKeyIndex' = rotateKey
    /\ rotations' = IF d = Observed THEN rotations + 1 ELSE rotations
    /\ dpc' = [dpc EXCEPT ![d] = "returned"]
    /\ modelIdx' = [modelIdx EXCEPT ![d] = 1]
    /\ keysTriedForThisModel' = [keysTriedForThisModel EXCEPT ![d] = 0]
    /\ response' = IF d = Observed THEN <<modelIdx[d], currentKey>> ELSE response
    /\ UNCHANGED <<nKeys, currentKey, thrown, lastError, requests, attempted,
                   afterEnd, sent>>
    /\ UNCHANGED <<scrapeVars, routeVars, sanitizeVars, singleVars, gateVars>>

\* if (!response.ok) throw ...; return result: callLlamaSmart returns it
ResponseOk(d) ==
    /\ dpc[d] = "fetch"
    /\ Answered(d, currentKey, "ok")
    /\ dpc' = [dpc EXCEPT ![d] = "returned"]
    /\ modelIdx' = [modelIdx EXCEPT ![d] = 1]
    /\ keysTriedForThisModel' = [keysTriedForThisModel EXCEPT ![d] = 0]
    /\ response' = IF d = Observed THEN <<modelIdx[d], currentKey>> ELSE response
    /\ UNCHANGED <<nKeys, currentKeyIndex, currentKey, thrown, lastError,
                   requests, rotations, attempted, afterEnd, sent>>
    /\ UNCHANGED <<scrapeVars, routeVars, sanitizeVars, singleVars, gateVars>>

\* (variant: a failed answer moves the cursor on by two credentials)
ResponseRotateTwice(d, o) ==
    /\ dpc[d] = "fetch"
    /\ o \in {"ratelimit", "error"}
    /\ Answered(d, currentKey, o)
    /\ currentKeyIndex' = (currentKeyIndex + 2) % nKeys
    /\ rotations' = IF d = Observed THEN rotations + 1 ELSE rotations
    /\ tryModelWithRotation(d, modelIdx[d], keysTriedForThisModel[d] + 1,
                            (currentKeyIndex + 2) % nKeys, attempted)
    /\ UNCHANGED <<nKeys, lastError, response, afterEnd>>
    /\ UNCHANGED <<scrapeVars, routeVars, sanitizeVars, singleVars, gateVars>>

\* a rate-limit signal (rotateKey(); keysTriedForThisModel++; continue) or a
\* failure caught with no fetch in its message (rotateKey();
\* keysTriedForThisModel++), then the loop test again
ResponseRotate(d, o) ==
    /\ dpc[d] = "fetch"
    /\ o \in {"ratelimit", "error"}
    /\ Answered(d, currentKey, o)
    /\ currentKeyIndex' = rotateKey
    /\ rotations' = IF d = Observed THEN rotations + 1 ELSE rotations
    /\ tryModelWithRotation(d, modelIdx[d], keysTriedForThisModel[d] + 1,
                            rotateKey, attempted)
    /\ UNCHANGED <<nKeys, lastError, response, afterEnd>>
    /\ UNCHANGED <<scrapeVars, routeVars, sanitizeVars, singleVars, gateVars>>

\* catch (err) { if (err.message.includes("fetch")) throw err; ... }
ResponseFetchError(d) ==
    /\ dpc[d] = "fetch"
    /\ Answered(d, currentKey, "fetcherr")
    /\ dpc' = [dpc EXCEPT ![d] = "tierFail"]
    /\ thrown' = IF d = Observed THEN "fetch" ELSE thrown
    /\ keysTriedForThisModel' = [keysTriedForThisModel EXCEPT ![d] = 0]
    /\ UNCHANGED <<nKeys, currentKeyIndex, modelIdx, currentKey, lastError,
                   requests, rotations, attempted, response, afterEnd, sent>>
    /\ UNCHANGED <<scrapeVars, routeVars, sanitizeVars, singleVars, gateVars>>

\* (variant: the tier loop gives up at the first tier that fails)
TierFailFatal(d) ==
    /\ dpc[d] = "tierFail"
    /\ lastError' = IF d = Observed THEN thrown ELSE lastError
    /\ dpc' = [dpc EXCEPT ![d] = "threw"]
    /\ modelIdx' = [modelIdx EXCEPT ![d] = 1]
    /\ caught' = IF d = Observed THEN "none" ELSE caught
    /\ UNCHANGED <<nKeys, currentKeyIndex, keysTriedForThisModel, currentKey,
                   thrown, requests, rotations, onlyRateLimits,
                   firstLimitsSecondServes, attempted, response, afterEnd, sent>>
    /\ UNCHANGED <<scrapeVars, routeVars, sanitizeVars, singleVars, gateVars>>

\* (variant: after a failed tier the loop goes straight to the last tier)
TierFailSkipping(d) ==
    /\ dpc[d] = "tierFail"
    /\ lastError' = IF d = Observed THEN thrown ELSE lastError
    /\ IF modelIdx[d] < Len(MODELS)
       THEN /\ tryModelWithRotation(d, Len(MODELS), 0, currentKeyIndex, {})
       ELSE /\ dpc' = [dpc EXCEPT ![d] = "threw"]
            /\ modelIdx' = [modelIdx EXCEPT ![d] = 1]
            /\ UNCHANGED <<keysTriedForThisModel, currentKey, thrown,
                           requests, attempted, sent>>
    /\ caught' = IF d = Observed THEN "none" ELSE caught
    /\ UNCHANGED <<nKeys, currentKeyIndex, rotations, onlyRateLimits,
                   firstLimitsSecondServes, response, afterEnd>>
    /\ UNCHANGED <<scrapeVars, routeVars, sanitizeVars, singleVars, gateVars>>

\* catch (error) of the tier loop: lastError = error; in both branches the
\* loop goes on to the next entry of MODELS; after the last one it throws
\* new Error("CRITICAL: Every account and every fallback model ...")
TierFail(d) ==
    /\ dpc[d] = "tierFail"
    /\ lastError' = IF d = Observed THEN thrown ELSE lastError
    /\ IF modelIdx[d] < Len(MODELS)
       THEN /\ tryModelWithRotation(d, modelIdx[d] + 1, 0, currentKeyIndex, {})
       ELSE /\ dpc' = [dpc EXCEPT ![d] = "threw"]
            /\ modelIdx' = [modelIdx EXCEPT ![d] = 1]
            /\ UNCHANGED <<keysTriedForThisModel, currentKey, thrown,
                           requests, attempted, sent>>
    /\ caught' = IF d = Observed THEN "none" ELSE caught
    /\ UNCHANGED <<nKeys, currentKeyIndex, rotations, onlyRateLimits,
                   firstLimitsSecondServes, response, afterEnd>>
    /\ UNCHANGED <<scrapeVars, routeVars, sanitizeVars, singleVars, gateVars>>

NextDispatch ==
    \/ \E d \in Dispatches : callLlamaSmart(d)
    \/ \E d \in Dispatches : ResponseOk(d)
    \/ \E d \in Dispatches : \E o \in Outcomes : ResponseRotate(d, o)
    \/ \E d \in Dispatches : ResponseFetchError(d)
    \/ \E d \in Dispatches : TierFail(d)

SpecDispatch == Init /\ [][NextDispatch]_vars

\* ================================================================ claims
\* a task that has returned from waitForTurn and has not yet run
\* activeScrapes-- (a call that ended without running it still counts)
Holding(t) == pc[t] \notin {"idle", "wait"} /\ released[t] = 0

\* C1: for every interleaving of the extraction tasks, the tasks that have
\* returned from waitForTurn and not yet decremented activeScrapes are never
\* more than MAX_CONCURRENT_SCRAPES.
C1_PermitsWithinCeiling ==
    Cardinality({t \in Tasks : Holding(t)}) <= MAX_CONCURRENT_SCRAPES

\* a task is navigating while every other task polls the gate
C1_Witness ==
    \E t \in Tasks :
        /\ pc[t] = "goto"
        /\ Holding(t)
        /\ \A u \in Tasks \ {t} : pc[u] = "wait"

\* C2 (as claimed): every extractConversationData call that got past
\* waitForTurn has run activeScrapes-- exactly once when it finishes, on every
\* exit path.  The code breaks it when the catch block's page.close() rejects.
C2_ReleasedExactlyOnce ==
    \A t \in Tasks : pc[t] = "done" => released[t] = 1

\* C3 (as claimed): extractConversationData never rejects: it settles with
\* the sanitized text or with a DATA_ERROR string.  The code breaks it when
\* the catch block's page.close() rejects.
C3_NeverRejects ==
    \A t \in Tasks : pc[t] = "done" => result[t] \in {"text", "DATA_ERROR"}

\* C4: with K >= 1 credentials and M tiers, a dispatch whose every request was
\* answered by a rate-limit signal never returns, never issues more than K*M
\* requests, and has issued exactly K*M when it throws the exhaustion error;
\* once the K*M-th answer is in, all that is left to it is that throw.
C4_RateLimitedEverywhere ==
    (nKeys >= 1 /\ onlyRateLimits) =>
        /\ requests <= nKeys * Len(MODELS)
        /\ dpc[Observed] # "returned"
        /\ dpc[Observed] = "threw" => requests = nKeys * Len(MODELS)
        /\ (requests = nKeys * Len(MODELS) /\ dpc[Observed] # "fetch") =>
              \/ dpc[Observed] = "threw"
              \/ dpc[Observed] = "tierFail" /\ modelIdx[Observed] = Len(MODELS)

\* the observed dispatch threw after rate limits only, with the largest pool
\* and another dispatch having run beside it
C4_Witness ==
    /\ nKeys = MaxKeys
    /\ dpc[Observed] = "threw"
    /\ onlyRateLimits
    /\ \E e \in Dispatches \ {Observed} : dpc[e] # "idle"

\* C5: two credentials, the cursor on the first, no other dispatch running:
\* when credential 0 answered only rate-limit signals and credential 1 only
\* successes, the dispatch returns the response got with credential 1 on the
\* first tier, and the cursor has advanced exactly once, to 1.
C5_SecondCredentialServes ==
    ( /\ nKeys = 2
      /\ dpc[Observed] = "returned"
      /\ firstLimitsSecondServes
      /\ \A e \in Dispatches \ {Observed} : dpc[e] = "idle" ) =>
        /\ response = <<1, 1>>
        /\ rotations = 1
        /\ currentKeyIndex = 1

\* the dispatch of C5 has returned after a rate limit on credential 0
C5_Witness ==
    /\ nKeys = 2
    /\ dpc[Observed] = "returned"
    /\ firstLimitsSecondServes
    /\ requests = 2
    /\ \A e \in Dispatches \ {Observed} : dpc[e] = "idle"

\* C6 (as claimed): whenever a dispatch rotates after a failed attempt made
\* with credential i, the cursor becomes (i + 1) mod K.  The code breaks it
\* when another dispatch rotated while the attempt was in flight.
C6_RotationFollowsAttempt ==
    [][ (dpc[Observed] = "fetch" /\ rotations' = rotations + 1) =>
            currentKeyIndex' = (currentKey + 1) % nKeys ]_vars

\* C7 (as claimed): a tier is given up as AllKeysExhausted only after the
\* dispatch attempted it with every credential of the pool.  The code breaks
\* it when another dispatch moved the cursor in between.
C7_ExhaustedMeansAllTried ==
    (dpc[Observed] = "tierFail" /\ thrown = "AllKeysExhausted") =>
        attempted = 0..(nKeys - 1)

\* C8: the cursor changes only in a rotateKey step, by one place, and it is
\* not reset: a step that starts a dispatch or ends one leaves it as it is,
\* and the first request of a dispatch uses the credential under the cursor.
C8_CursorOnlyRotates ==
    [][ /\ currentKeyIndex' # currentKeyIndex =>
              /\ currentKeyIndex' = (currentKeyIndex + 1) % nKeys
              /\ \E d \in Dispatches :
                     /\ dpc[d] = "fetch"
                     /\ dpc'[d] \in {"fetch", "tierFail"}
        /\ (dpc[Observed] = "idle" /\ dpc'[Observed] # "idle") =>
              /\ currentKeyIndex' = currentKeyIndex
              /\ dpc'[Observed] = "fetch" => currentKey' = currentKeyIndex
        /\ \A d \in Dispatches :
              (dpc[d] \notin Terminal /\ dpc'[d] \in Terminal) =>
                  currentKeyIndex' = currentKeyIndex ]_vars

\* a dispatch called after another one ended is on its first request, made
\* with the credential the cursor was left on, which is not the first one
C8_Witness ==
    /\ afterEnd
    /\ dpc[Observed] = "fetch"
    /\ requests = 1
    /\ currentKey = currentKeyIndex
    /\ currentKeyIndex # 0

\* C9: getBrowser called while globalBrowser is set and connected returns
\* that handle, launches nothing and leaves globalBrowser alone; a launch is
\* started only when there is no handle or the handle is disconnected.
C9_LiveHandleReused ==
    [][ \A t \in Tasks :
          /\ (pc[t] = "turn" /\ pc'[t] # "turn") =>
                IF globalBrowser # 0 /\ globalBrowser \in connectedSet
                THEN /\ pc'[t] = "newPage"
                     /\ browser'[t] = globalBrowser
                     /\ globalBrowser' = globalBrowser
                     /\ launched' = launched
                ELSE pc'[t] = "launch"
          /\ (pc[t] # "launch" /\ pc'[t] = "launch") =>
                (globalBrowser = 0 \/ globalBrowser \notin connectedSet) ]_vars

\* one browser was launched, a task finished with it and a later task was
\* handed the same, still connected, handle
C9_Witness ==
    /\ launched = 1
    /\ globalBrowser \in connectedSet
    /\ \E t, u \in Tasks :
          /\ pc[t] = "done" /\ browser[t] = globalBrowser
          /\ pc[u] = "newPage" /\ browser[u] = globalBrowser

\* C10: for every interleaving, at most one browser launched by getBrowser
\* is connected and at most one puppeteer.launch is in progress.
C10_OneBrowser ==
    /\ Cardinality(connectedSet) <= 1
    /\ Cardinality({t \in Tasks : pc[t] = "launch"}) <= 1

\* the first browser was lost and a second one launched and connected, while
\* another request waits at the gate
C10_Witness ==
    /\ launched = 2
    /\ connectedSet = {2}
    /\ \E t, u \in Tasks : pc[t] = "newPage" /\ pc[u] = "wait"

\* C11 (as claimed): every page opened with browser.newPage() is closed when
\* the extractConversationData call that opened it finishes, on every path.
\* The code breaks it when the catch block's page.close() rejects.
C11_PagesClosedAtExit ==
    \A t \in Tasks : (pc[t] = "done" /\ page[t] # "undefined") => page[t] = "closed"

\* a call whose puppeteer.launch rejected: it finished with no browser
LaunchFailed(t) == pc[t] = "done" /\ browser[t] = 0

\* C12: when puppeteer.launch rejects, the same step ends the call (no second
\* launch by that getBrowser): it returns DATA_ERROR, runs activeScrapes--
\* once, leaves globalBrowser as it was and not live, so that the next
\* getBrowser call starts a launch of its own.
C12_LaunchFailure ==
    [][ \A t \in Tasks :
          /\ (pc[t] = "launch" /\ pc'[t] # "launch" /\ launched' = launched) =>
                /\ pc'[t] = "done"
                /\ result'[t] = "DATA_ERROR"
                /\ released'[t] = released[t] + 1
                /\ activeScrapes' = activeScrapes - 1
                /\ globalBrowser' = globalBrowser
                /\ connectedSet' = connectedSet
                /\ ~(globalBrowser' # 0 /\ globalBrowser' \in connectedSet')
          /\ (pc[t] = "turn" /\ pc'[t] # "turn"
                /\ (\E u \in Tasks : LaunchFailed(u)) /\ launched = 0) =>
                pc'[t] = "launch" ]_vars

\* a launch failed for one call, and the next call, the only other one made,
\* launched the browser it now works with
C12_Witness ==
    \E t, u \in Tasks :
        /\ LaunchFailed(t)
        /\ result[t] = "DATA_ERROR"
        /\ pc[u] = "newPage"
        /\ browser[u] = globalBrowser
        /\ globalBrowser \in connectedSet
        /\ launched = 1
        /\ \A v \in Tasks \ {t, u} : pc[v] = "idle"

\* ============================================================ HTTP routes
\* /api/initialize, /api/chat and /api/debug, one request from its arrival to
\* its response.  /api/initialize is modelled in its three snapshots:
\*   multikey  part_004:259-286   sequential loop, no minimum length
\*   gated     part_005:246-273, server.js:807-844
\*                                sequential loop, minimum length 200
\*   parallel  server.js:159-220  Promise.all, minimum length 300
\* The sequential loop calls the gated extractConversationData modelled above:
\* link j is extracted by task j, and no other request is in flight.
\* await callLlamaSmart(...) settles the way a dispatch of SpecDispatch ends:
\* it returns a completion body or it throws.

\* links of one request
MaxLinks == 2
\* characters of a completion's content
MaxContent == 3

RequestTasks == 1..MaxLinks
Variants == {"multikey", "gated", "parallel"}

\* req.body.links, empty when links is missing
LinkLists == UNION {[1..n -> BOOLEAN] : n \in 0..MaxLinks}

\* lengths an extracted text can have: sanitizeScrapedContent returns 0 to
\* 18000 characters; the parallel snapshot's extractor returns its text only
\* when it has 200 characters or more, behind a [SOURCE: title] header
TextLengths(v) == IF v = "parallel" THEN {220, 300} ELSE {0, 99, 200}

\* one entry of transcripts: the link it came from, whether it starts with
\* DATA_ERROR, and its length
Text(j, n) == [link |-> j, error |-> FALSE, len |-> n]
DataError(j) == [link |-> j, error |-> TRUE, len |-> 20]
\* a promise of Promise.all's input that has not settled / has rejected
Unsettled(j) == [link |-> j, error |-> FALSE, len |-> -1]
Rejected(j) == [link |-> j, error |-> TRUE, len |-> -2]

\* t.startsWith("DATA_ERROR")
startsWithDataError(t) == t.error

\* (variant: the transcripts joined without the filter)
Unfiltered(ts) == ts
\* transcripts.filter(t => !t.startsWith("DATA_ERROR"))
Valid(ts) == SelectSeq(ts, LAMBDA t : ~startsWithDataError(t))

RECURSIVE TotalLength(_)
TotalLength(ts) ==
    IF ts = <<>> THEN 0 ELSE Head(ts).len + TotalLength(Tail(ts))

\* validData.length, validData being the texts joined by '\n\n'
JoinedLength(ts) ==
    IF ts = <<>> THEN 0 ELSE TotalLength(ts) + 2 * (Len(ts) - 1)

\* the negated test of: if (validData.length < N) throw new Error(...)
Viable(v, n) ==
    CASE v = "gated" -> ~(n < 200)
      [] v = "parallel" -> ~(n < 300)
      [] v = "multikey" -> TRUE

\* res.json({ success: true, <payload> })
Success(value) ==
    [status |-> 200, success |-> TRUE, payload |-> value, error |-> "none"]
\* res.status(500).json({ success: false, error: error.message })
Failure(message) ==
    [status |-> 500, success |-> FALSE, payload |-> Undefined, error |-> message]

Respond(r) ==
    /\ reply' = r
    /\ responses' = responses + 1
    /\ rpc' = "responded"
    /\ UNCHANGED prompt

\* await callLlamaSmart([system, user message])
Dispatch(p) ==
    /\ prompt' = p
    /\ rpc' = "dispatch"
    /\ UNCHANGED <<reply, responses>>

Standard == [mode |-> "STANDARD", texts |-> <<>>]

\* the links branch once transcripts is complete: filter, join, the length
\* test, and the user message chosen by validData's truthiness
Synthesize(v, ts) ==
    LET validData == Valid(ts) IN
    IF ~Viable(v, JoinedLength(validData))
    THEN Respond(Failure("Extraction Failed."))
    ELSE IF JoinedLength(validData) > 0
         THEN Dispatch([mode |-> "DATA", texts |-> validData])
         ELSE Dispatch(Standard)

\* for (const l of links) if (l.url) transcripts.push(await
\* extractConversationData(l.url)): the loop from link i on, with ts pushed so
\* far, up to its next await
Loop(v, ls, i, ts) ==
    LET rest == {j \in i..Len(ls) : ls[j]} IN
    /\ transcripts' = ts
    /\ IF rest # {}
       THEN LET j == CHOOSE k \in rest : \A m \in rest : k <= m IN
            /\ pc[j] = "idle"
            /\ waitForTurn(j)
            /\ cur' = j
            /\ extractions' = extractions + 1
            /\ rpc' = "extract"
            /\ UNCHANGED <<prompt, reply, responses>>
       ELSE /\ Synthesize(v, ts)
            /\ UNCHANGED <<cur, extractions, activeScrapes, pc>>

\* (variant: the links branch taken whatever links holds)
HasLinksAlways(ls) == TRUE
\* links && links.length > 0
HasLinks(ls) == Len(ls) > 0

\* POST /api/initialize reaches a sequential snapshot
ReceiveInitialize(v, ls) ==
    /\ UNCHANGED <<dispatchVars, sanitizeVars, singleVars, gateVars>>
    /\ rpc = "idle"
    /\ route' = "initialize"
    /\ variant' = v
    /\ links' = ls
    /\ IF HasLinks(ls)
       THEN Loop(v, ls, 1, <<>>)
       ELSE /\ Dispatch(Standard)
            /\ UNCHANGED <<cur, extractions, transcripts, activeScrapes, pc>>
    /\ UNCHANGED <<historyOk, body, finished, content>>
    /\ UNCHANGED <<globalBrowser, connectedSet, launched, page, browser,
                   released, result>>

\* what the finished call of task t handed to the loop
Returned(t) ==
    IF result[t] = "text"
    THEN {Text(t, n) : n \in TextLengths(variant)}
    ELSE {DataError(t)}

\* the awaited extractConversationData settled: push and go on, or land in
\* the handler's catch when the call rejected
Resume ==
    /\ UNCHANGED <<dispatchVars, sanitizeVars, singleVars, gateVars>>
    /\ rpc = "extract"
    /\ pc[cur] = "done"
    /\ finished' = Append(finished, cur)
    /\ IF result[cur] = "rejected"
       THEN /\ Respond(Failure("page.close rejected"))
            /\ UNCHANGED <<cur, extractions, transcripts, activeScrapes, pc>>
       ELSE \E tr \in Returned(cur) :
                Loop(variant, links, cur + 1, Append(transcripts, tr))
    /\ UNCHANGED <<route, variant, links, historyOk, body, content>>
    /\ UNCHANGED <<globalBrowser, connectedSet, launched, page, browser,
                   released, result>>

\* links.filter(l => l.url): the links that are extracted, in input order
UrlLinks(ls) == SelectSeq([j \in 1..Len(ls) |-> j], LAMBDA j : ls[j])

\* POST /api/initialize reaches the parallel snapshot: every extraction is
\* started before the handler suspends at await Promise.all(...)
ReceiveParallel(ls) ==
    /\ UNCHANGED <<scrapeVars, dispatchVars, sanitizeVars, singleVars, gateVars>>
    /\ rpc = "idle"
    /\ route' = "initialize"
    /\ variant' = "parallel"
    /\ links' = ls
    /\ IF HasLinks(ls)
       THEN LET urls == UrlLinks(ls) IN
            /\ transcripts' = [k \in 1..Len(urls) |-> Unsettled(urls[k])]
            /\ extractions' = extractions + Len(urls)
            /\ IF urls = <<>>
               THEN Synthesize("parallel", <<>>)
               ELSE /\ rpc' = "all"
                    /\ UNCHANGED <<prompt, reply, responses>>
       ELSE /\ Dispatch(Standard)
            /\ UNCHANGED <<transcripts, extractions>>
    /\ UNCHANGED <<historyOk, body, cur, finished, content>>

\* (variant: the results collected in the order the extractions complete)
SettledInCompletionOrder(ts, k, tr) ==
    LET done == SelectSeq(ts, LAMBDA t : t.len >= 0) IN
    Append(done, tr) \o SelectSeq(ts, LAMBDA t : t.len < 0 /\ t.link # tr.link)
\* Promise.all keeps each value at the position of its promise
Settled(ts, k, tr) == [ts EXCEPT ![k] = tr]

\* the k-th extraction of the parallel snapshot settles with tr; Promise.all
\* rejects with the first rejection and resolves once every promise resolved
Settle(k, tr) ==
    /\ UNCHANGED <<scrapeVars, dispatchVars, sanitizeVars, singleVars, gateVars>>
    /\ variant = "parallel"
    /\ rpc \in {"all", "dispatch", "responded"}
    /\ k \in 1..Len(transcripts)
    /\ transcripts[k].len = -1
    /\ tr.link = transcripts[k].link
    /\ transcripts' = Settled(transcripts, k, tr)
    /\ finished' = Append(finished, tr.link)
    /\ IF rpc = "all"
       THEN IF tr = Rejected(tr.link)
            THEN Respond(Failure("browser.close rejected"))
            ELSE IF \A m \in 1..Len(transcripts) : transcripts'[m].len >= 0
                 THEN Synthesize("parallel", transcripts')
                 ELSE UNCHANGED <<rpc, prompt, reply, responses>>
       ELSE UNCHANGED <<rpc, prompt, reply, responses>>
    /\ UNCHANGED <<route, variant, links, historyOk, body, cur, content,
                   extractions>>

\* how an extraction of the parallel snapshot can settle
Settlements(j) ==
    {Text(j, n) : n \in TextLengths("parallel")} \cup {DataError(j), Rejected(j)}

\* a history of /api/chat holds at most this many entries
MaxHistory == 2

\* { role, content }: the content is written as the pieces it is built from
Message(role, pieces) == [role |-> role, content |-> pieces]

Foundations == {"", "F"}
Entries == {Message("user", <<"hello">>), Message("assistant", <<"yo">>)}
Histories == UNION {[1..n -> Entries] : n \in 0..MaxHistory}

\* { role: "system", content: `You are Pluto Intelligence ... Foundation
\* Context: \n\n${foundation}` }
System(f) ==
    Message("system", <<"You are Pluto Intelligence", "Foundation Context: ", f>>)

\* (variant: the system message is put after the history)
ChatMessagesSystemLast(f, hs) == hs \o <<System(f)>>

\* const messages = [ { role: "system", ... }, ...history ]
ChatMessages(f, hs) == <<System(f)>> \o hs

\* POST /api/chat: messages = [system, ...history] throws inside the try
\* when history is not iterable
ReceiveChat(h, f, hs) ==
    /\ UNCHANGED <<scrapeVars, dispatchVars, sanitizeVars, singleVars, gateVars>>
    /\ rpc = "idle"
    /\ route' = "chat"
    /\ historyOk' = h
    /\ body' = [foundation |-> f, history |-> hs]
    /\ IF h
       THEN Dispatch([mode |-> "CHAT", texts |-> ChatMessages(f, hs)])
       ELSE Respond(Failure("history is not iterable"))
    /\ UNCHANGED <<variant, links, cur, transcripts, finished, content,
                   extractions>>

\* POST /api/debug
ReceiveDebug ==
    /\ UNCHANGED <<scrapeVars, dispatchVars, sanitizeVars, singleVars, gateVars>>
    /\ rpc = "idle"
    /\ route' = "debug"
    /\ Dispatch([mode |-> "DEBUG", texts |-> <<>>])
    /\ UNCHANGED <<variant, links, historyOk, body, cur, transcripts, finished,
                   content, extractions>>

\* ------------------------------------------- structured-output recovery
\* the characters a completion's content is made of here: braces, a digit,
\* JSON white space, and a letter standing for prose
Alphabet == {"{", "}", "1", " ", "x"}
Contents == UNION {[1..n -> Alphabet] : n \in 0..MaxContent}

\* String.prototype.indexOf / lastIndexOf for one character: 0-based, -1
\* when the character does not occur
indexOf(cs, c) ==
    LET at == {i \in 1..Len(cs) : cs[i] = c} IN
    IF at = {} THEN -1 ELSE (CHOOSE i \in at : \A j \in at : i <= j) - 1

lastIndexOf(cs, c) ==
    LET at == {i \in 1..Len(cs) : cs[i] = c} IN
    IF at = {} THEN -1 ELSE (CHOOSE i \in at : \A j \in at : i >= j) - 1

\* String.prototype.substring: both arguments are clamped to 0..length and
\* swapped when the first is the larger
substring(cs, start, end) ==
    LET clamp(n) == IF n < 0 THEN 0 ELSE IF n > Len(cs) THEN Len(cs) ELSE n
        a == clamp(start)
        b == clamp(end)
    IN  IF a <= b THEN SubSeq(cs, a + 1, b) ELSE SubSeq(cs, b + 1, a)

\* JSON.parse over Alphabet: white space, then a number or an object with
\* no members, then white space; anything else is a SyntaxError
Strip(cs) ==
    LET ink == {i \in 1..Len(cs) : cs[i] # " "} IN
    IF ink = {} THEN <<>>
    ELSE SubSeq(cs, CHOOSE i \in ink : \A j \in ink : i <= j,
                    CHOOSE i \in ink : \A j \in ink : i >= j)

IsNumber(cs) == cs # <<>> /\ \A i \in 1..Len(cs) : cs[i] = "1"

IsObject(cs) ==
    /\ Len(cs) >= 2
    /\ cs[1] = "{"
    /\ cs[Len(cs)] = "}"
    /\ \A i \in 2..(Len(cs) - 1) : cs[i] = " "

Parses(cs) == IsNumber(Strip(cs)) \/ IsObject(Strip(cs))

\* content.substring(content.indexOf('{'), content.lastIndexOf('}') + 1)
Recovered(cs) == substring(cs, indexOf(cs, "{"), lastIndexOf(cs, "}") + 1)

\* ------------------------------------------------ the dispatch settles
\* the content of the completion a dispatch returned: undefined when the
\* body has no choices
Completions(r) ==
    IF r = "debug"
    THEN {Undefined} \cup {String(cs) : cs \in Contents}
    ELSE {Undefined, String(<<>>), String(<<"h", "i">>)}

\* what the handler answers to a completion whose content is c: the content
\* itself in /api/initialize and /api/chat; in /api/debug the parsed slice
\* (written as the text it was parsed from), or the TypeError of
\* undefined.substring, or the SyntaxError of JSON.parse
Payload(r, c) ==
    IF r # "debug" THEN Success(c)
    ELSE IF ~c.defined
         THEN Failure("Cannot read properties of undefined")
         ELSE IF Parses(Recovered(c.chars))
              THEN Success(String(Recovered(c.chars)))
              ELSE Failure("Unexpected token")

\* await callLlamaSmart(...) returns a completion
DispatchReturns ==
    /\ UNCHANGED <<scrapeVars, dispatchVars, sanitizeVars, singleVars, gateVars>>
    /\ rpc = "dispatch"
    /\ \E c \in Completions(route) :
          /\ content' = c
          /\ Respond(Payload(route, c))
    /\ UNCHANGED <<route, variant, links, historyOk, body, cur, transcripts,
                   finished, extractions>>

\* the messages callLlamaSmart throws: every tier exhausted, or a failure of
\* fetch itself
Thrown == {"CRITICAL: Every account and every fallback model has hit its limit.",
           "fetch failed"}

\* await callLlamaSmart(...) throws: the handler's catch answers
DispatchThrows(e) ==
    /\ UNCHANGED <<scrapeVars, dispatchVars, sanitizeVars, singleVars, gateVars>>
    /\ rpc = "dispatch"
    /\ Respond(Failure(e))
    /\ UNCHANGED <<route, variant, links, historyOk, body, cur, transcripts,
                   finished, content, extractions>>

NextRoutes ==
    \/ \E v \in {"multikey", "gated"}, ls \in LinkLists : ReceiveInitialize(v, ls)
    \/ Resume
    \/ \E ls \in LinkLists : ReceiveParallel(ls)
    \/ \E k, j \in 1..MaxLinks : \E tr \in Settlements(j) : Settle(k, tr)
    \/ \E f \in Foundations, hs \in Histories : ReceiveChat(TRUE, f, hs)
    \/ \E f \in Foundations : ReceiveChat(FALSE, f, <<>>)
    \/ ReceiveDebug
    \/ DispatchReturns
    \/ \E e \in Thrown : DispatchThrows(e)
    \/ \E t \in RequestTasks : GetBrowser(t)
    \/ \E t \in RequestTasks : LaunchOk(t)
    \/ \E t \in RequestTasks : LaunchFail(t)
    \/ \E b \in 1..MaxLaunches : Disconnect(b)
    \/ \E t \in RequestTasks : NewPageOk(t)
    \/ \E t \in RequestTasks : NewPageFail(t)
    \/ \E t \in RequestTasks : PageStepOk(t)
    \/ \E t \in RequestTasks : PageStepFail(t)
    \/ \E t \in RequestTasks : CloseOk(t)
    \/ \E t \in RequestTasks : CloseFail(t)
    \/ \E t \in RequestTasks : CatchCloseOk(t)
    \/ \E t \in RequestTasks : CatchCloseFail(t)

SpecRoutes == Init /\ [][NextRoutes]_vars

\* ------------------------------------- /api/chat with its dispatch
\* (variant: the dispatch of /api/chat starts from the first credential)
ChatCallsFromFirstKey ==
    /\ rpc = "dispatch"
    /\ route = "chat"
    /\ callLlamaSmartResetting(Observed)

\* const result = await callLlamaSmart(messages): the call runs in the
\* handler's own turn up to the first fetch; it is the observed dispatch
ChatCalls ==
    /\ rpc = "dispatch"
    /\ route = "chat"
    /\ callLlamaSmart(Observed)

\* the dispatch of another request handles a failed answer: rotateKey() on
\* the shared cursor, at any await of this request
OtherRotates ==
    /\ nKeys > 0
    /\ ~(rpc = "dispatch" /\ dpc[Observed] = "idle")
    /\ currentKeyIndex' = rotateKey
    /\ UNCHANGED <<nKeys, dpc, modelIdx, keysTriedForThisModel, currentKey,
                   thrown, lastError, requests, rotations, onlyRateLimits,
                   firstLimitsSecondServes, attempted, response, afterEnd,
                   caught, sent>>
    /\ UNCHANGED <<scrapeVars, routeVars, sanitizeVars, singleVars, gateVars>>

\* callLlamaSmart returned: res.json({ success: true, reply: ... })
ChatReturns ==
    /\ dpc[Observed] = "returned"
    /\ route = "chat"
    /\ DispatchReturns

\* (variant: the dispatch's final error carries the message of lastError)
CriticalWithLastError(e) ==
    IF e = "fetch" THEN "fetch failed" ELSE "All account keys exhausted"

\* throw new Error(`CRITICAL: Every account and every fallback model has hit
\* its limit. ...`) after the tier loop, with lastError = e: e is not used
Critical(e) ==
    "CRITICAL: Every account and every fallback model has hit its limit."

\* callLlamaSmart threw after its last tier: the handler's catch answers
ChatThrows ==
    /\ dpc[Observed] = "threw"
    /\ route = "chat"
    /\ DispatchThrows(Critical(lastError))

NextChat ==
    \/ \E f \in Foundations, hs \in Histories : ReceiveChat(TRUE, f, hs)
    \/ \E f \in Foundations : ReceiveChat(FALSE, f, <<>>)
    \/ ChatCalls
    \/ OtherRotates
    \/ ResponseOk(Observed)
    \/ \E o \in Outcomes : ResponseRotate(Observed, o)
    \/ ResponseFetchError(Observed)
    \/ TierFail(Observed)
    \/ ChatReturns
    \/ ChatThrows

SpecChat == Init /\ [][NextChat]_vars

\* ------------------------------------------------------- claims on chat
Hi == String(<<"h", "i">>)

\* /api/chat answered a history of one user message, every answer of the
\* endpoint was a 200 and the completion's content is hi
OneUserMessageAnsweredHi ==
    /\ route = "chat"
    /\ rpc = "responded"
    /\ historyOk
    /\ Len(body.history) = 1
    /\ body.history[1].role = "user"
    /\ rotations = 0
    /\ thrown = "none"
    /\ content = Hi

\* C21: /api/chat with a history of one user message and an endpoint that
\* answers 200 with the content hi responds { success: true, reply: hi }
\* after exactly one request, and that request is made with the first model
\* tier and the credential the cursor is on when the dispatch is called.
C21_OneRequestAnswersHi ==
    /\ [](OneUserMessageAnsweredHi =>
              /\ reply = Success(Hi)
              /\ responses = 1
              /\ requests = 1
              /\ response = <<1, currentKey>>)
    /\ [][(dpc[Observed] = "idle" /\ dpc'[Observed] = "fetch") =>
              /\ modelIdx'[Observed] = 1
              /\ currentKey' = currentKeyIndex
              /\ currentKeyIndex' = currentKeyIndex
              /\ requests' = 1]_vars

\* the scenario, with the cursor moved to credential 1 by an earlier dispatch
C21_Witness ==
    /\ OneUserMessageAnsweredHi
    /\ reply = Success(Hi)
    /\ requests = 1
    /\ response = <<1, 1>>

\* C30: /api/chat passes to the dispatcher the system message built from the
\* foundation followed by every entry of history in its original order, and
\* every request of that dispatch, retries and failovers included, carries
\* this same sequence.
C30_SameMessagesEveryRequest ==
    (route = "chat" /\ historyOk) =>
        /\ Len(prompt.texts) = Len(body.history) + 1
        /\ prompt.texts[1].role = "system"
        /\ prompt.texts[1].content[Len(prompt.texts[1].content)] = body.foundation
        /\ \A i \in 1..Len(body.history) : prompt.texts[i + 1] = body.history[i]
        /\ \A m \in sent : m = prompt.texts

\* a history of two different entries answered by the second tier after the
\* first tier's credentials were used up
C30_Witness ==
    /\ route = "chat"
    /\ rpc = "responded"
    /\ reply.success
    /\ Len(body.history) = 2
    /\ body.history[1] # body.history[2]
    /\ body.foundation = "F"
    /\ response[1] = 2
    /\ requests >= 2
    /\ sent # {}

\* ------------------------------------------------------ claims on routes
\* the dispatch of the request threw (its message reached the catch)
DispatchThrew == rpc = "responded" /\ reply.error \in Thrown

\* C13: every POST to /api/initialize, /api/chat and /api/debug gets exactly
\* one response, and it is either success: true with its payload field
\* defined or status 500 with success: false and an error string, whatever
\* extraction and dispatch come to.
C13_OneWellFormedResponse ==
    /\ responses <= 1
    /\ rpc = "responded" =>
          /\ responses = 1
          /\ \/ reply.status = 200 /\ reply.success /\ reply.payload.defined
             \/ reply.status = 500 /\ ~reply.success /\ reply.error # "none"

\* two links, one extraction returned a DATA_ERROR string and the other at
\* least 200 characters of text, in the gated sequential snapshot
TwoLinksOneFailed ==
    /\ route = "initialize"
    /\ variant = "gated"
    /\ Len(links) = 2
    /\ Len(transcripts) = 2
    /\ \E a, b \in 1..2 :
          /\ transcripts[a] = DataError(a)
          /\ ~startsWithDataError(transcripts[b])
          /\ transcripts[b].len >= 200

\* C14: in the gated sequential /api/initialize, with two links of which one
\* extraction returned DATA_ERROR and the other at least 200 characters, the
\* prompt handed to the dispatcher holds the valid text and not the
\* DATA_ERROR string, and the request succeeds when the dispatch does.
C14_ValidTextOnly ==
    TwoLinksOneFailed =>
        /\ rpc \in {"dispatch", "responded"}
        /\ prompt.mode = "DATA"
        /\ Len(prompt.texts) = 1
        /\ \E b \in 1..2 : prompt.texts[1] = transcripts[b]
                           /\ ~startsWithDataError(transcripts[b])
        /\ \A a \in 1..Len(prompt.texts) : ~startsWithDataError(prompt.texts[a])
        /\ (rpc = "responded" /\ ~DispatchThrew) =>
              (reply.status = 200 /\ reply.success)

C14_Witness ==
    /\ TwoLinksOneFailed
    /\ transcripts[1] = DataError(1)
    /\ rpc = "responded"
    /\ reply.success
    /\ reply.payload.defined

\* links were requested and every extraction returned a DATA_ERROR string,
\* in the multi-key snapshot
EveryLinkFailed ==
    /\ route = "initialize"
    /\ variant = "multikey"
    /\ UrlLinks(links) # <<>>
    /\ Len(transcripts) = Len(UrlLinks(links))
    /\ \A k \in 1..Len(transcripts) : transcripts[k] = DataError(transcripts[k].link)

\* C15: in the multi-key /api/initialize, when links are requested and every
\* one of them fails extraction, the request is fatal: nothing is dispatched
\* and the only response is status 500 with success: false.
C15_AllFailedIsFatal ==
    EveryLinkFailed =>
        /\ rpc = "responded"
        /\ reply.status = 500
        /\ ~reply.success

\* C16: /api/initialize called with no links never invokes
\* extractConversationData, waitForTurn or getBrowser, leaves activeScrapes
\* and globalBrowser as they were, and succeeds when the dispatch does.
C16_NoLinksNoScrape ==
    (route = "initialize" /\ links = <<>>) =>
        /\ extractions = 0
        /\ \A t \in Tasks : pc[t] = "idle" /\ browser[t] = 0
        /\ activeScrapes = 0
        /\ globalBrowser = 0
        /\ launched = 0
        /\ rpc \in {"dispatch", "responded"}
        /\ prompt = Standard
        /\ (rpc = "responded" /\ ~DispatchThrew) =>
              (reply.status = 200 /\ reply.success)

C16_Witness ==
    /\ route = "initialize"
    /\ variant = "gated"
    /\ links = <<>>
    /\ rpc = "responded"
    /\ reply.success
    /\ reply.payload.defined
    /\ extractions = 0

\* C17: the texts that reach the prompt are those of the extractions that
\* did not fail, in the order of the input links, whatever the order in
\* which the extractions completed, in the sequential loop and under
\* Promise.all alike.
C17_InputOrder ==
    prompt.mode = "DATA" =>
        /\ \A a, b \in 1..Len(prompt.texts) :
              a < b => prompt.texts[a].link < prompt.texts[b].link
        /\ {prompt.texts[a] : a \in 1..Len(prompt.texts)} =
              {transcripts[k] : k \in {m \in 1..Len(transcripts) :
                                          ~startsWithDataError(transcripts[m])}}
        /\ \A a \in 1..Len(prompt.texts) : links[prompt.texts[a].link]

C17_Witness ==
    /\ variant = "parallel"
    /\ finished = <<2, 1>>
    /\ prompt.mode = "DATA"
    /\ Len(prompt.texts) = 2
    /\ prompt.texts[1].link = 1
    /\ prompt.texts[2].link = 2

\* the braces of cs are absent or unbalanced
Unbalanced(cs) ==
    \/ indexOf(cs, "{") = -1
    \/ lastIndexOf(cs, "}") = -1
    \/ lastIndexOf(cs, "}") < indexOf(cs, "{")

\* C20: /api/debug parses the slice from the first '{' to the last '}' of
\* the completion's text; when the braces are absent or unbalanced there is
\* no trace: the request ends with the failure envelope, never with
\* success: true.
C20_NoTraceFromUnbalanced ==
    (route = "debug" /\ rpc = "responded" /\ content.defined
        /\ Unbalanced(content.chars)) => ~reply.success

\* ================================================= sanitizeScrapedContent
\* A string is the sequence of its UTF-16 code units.

\* pieces an input string is put together from
MaxFragments == 3
\* the end of .substring(0, 18000)
MaxOutput == 18000

Letters == <<"a", "b", "c", "d", "e", "f", "g", "h", "i", "j", "k", "l", "m",
             "n", "o", "p", "q", "r", "s", "t", "u", "v", "w", "x", "y", "z">>
Capitals == <<"A", "B", "C", "D", "E", "F", "G", "H", "I", "J", "K", "L", "M",
              "N", "O", "P", "Q", "R", "S", "T", "U", "V", "W", "X", "Y", "Z">>

\* the code unit of a letter or a space
CodeUnit(ch) ==
    IF ch = " " THEN 32
    ELSE IF \E k \in 1..26 : Letters[k] = ch
         THEN 96 + (CHOOSE k \in 1..26 : Letters[k] = ch)
         ELSE 64 + (CHOOSE k \in 1..26 : Capitals[k] = ch)

Codes(w) == [i \in 1..Len(w) |-> CodeUnit(w[i])]

\* the alternatives of the first regular expression, in its order
Phrases ==
    << Codes(<<"T", "e", "r", "m", "s", " ", "o", "f", " ", "S", "e", "r",
               "v", "i", "c", "e">>),
       Codes(<<"P", "r", "i", "v", "a", "c", "y", " ", "P", "o", "l", "i",
               "c", "y">>),
       Codes(<<"C", "o", "o", "k", "i", "e", " ", "P", "r", "e", "f", "e",
               "r", "e", "n", "c", "e", "s">>),
       Codes(<<"R", "e", "p", "o", "r", "t", " ", "c", "o", "n", "v", "e",
               "r", "s", "a", "t", "i", "o", "n">>),
       Codes(<<"B", "y", " ", "m", "e", "s", "s", "a", "g", "i", "n", "g",
               " ", "C", "h", "a", "t", "G", "P", "T">>),
       Codes(<<"C", "h", "e", "c", "k", " ", "i", "m", "p", "o", "r", "t",
               "a", "n", "t", " ", "i", "n", "f", "o">>),
       Codes(<<"S", "i", "g", "n", " ", "i", "n">>),
       Codes(<<"E", "x", "p", "l", "o", "r", "e", " ", "o", "u", "r", " ",
               "o", "t", "h", "e", "r">>),
       Codes(<<"T", "r", "y", " ", "G", "e", "m", "i", "n", "i">>),
       Codes(<<"T", "r", "y", " ", "C", "h", "a", "t", "G", "P", "T">>),
       Codes(<<"V", "e", "r", "i", "f", "y", " ", "y", "o", "u", " ", "a",
               "r", "e", " ", "h", "u", "m", "a", "n">>) >>

\* the i flag: two code units match when their upper-case forms are equal;
\* a unit outside ASCII never canonicalises to an ASCII one
Canonicalize(c) == IF c >= 97 /\ c <= 122 THEN c - 32 ELSE c

\* alternative p matches s at position i
MatchesAt(s, i, p) ==
    /\ i + Len(p) - 1 <= Len(s)
    /\ \A k \in 1..Len(p) : Canonicalize(s[i + k - 1]) = Canonicalize(p[k])

\* the alternatives that match s at position i
PhrasesAt(s, i) == {n \in 1..Len(Phrases) : MatchesAt(s, i, Phrases[n])}

\* .replace(/Terms of Service|...|Verify you are human/gi, ""): one pass from
\* the left; a match is dropped and the scan goes on after it
RECURSIVE removePhrases(_, _)
removePhrases(s, i) ==
    LET hits == {j \in i..Len(s) : PhrasesAt(s, j) # {}} IN
    IF hits = {} THEN SubSeq(s, i, Len(s))
    ELSE LET j == CHOOSE h \in hits : \A g \in hits : h <= g
             n == CHOOSE a \in PhrasesAt(s, j) : \A b \in PhrasesAt(s, j) : a <= b
         IN  SubSeq(s, i, j - 1) \o removePhrases(s, j + Len(Phrases[n]))

\* .replace(/[^\x20-\x7E\n]/g, " ")
replaceNonPrintable(s) ==
    [i \in 1..Len(s) |->
        IF (s[i] >= 32 /\ s[i] <= 126) \/ s[i] = 10 THEN s[i] ELSE 32]

\* the white space and line terminators String.prototype.trim strips
\* (those below U+2000)
WhiteSpace == {9, 10, 11, 12, 13, 32, 160, 5760}

\* .trim()
trim(s) ==
    LET ink == {i \in 1..Len(s) : s[i] \notin WhiteSpace} IN
    IF ink = {} THEN <<>>
    ELSE SubSeq(s, CHOOSE i \in ink : \A j \in 1..(i - 1) : j \notin ink,
                   CHOOSE i \in ink : \A j \in (i + 1)..Len(s) : j \notin ink)

\* (variant: the text returned at its full length)
untruncated(s) == s
\* .substring(0, 18000)
truncated(s) == substring(s, 0, MaxOutput)

\* sanitizeScrapedContent(text); a is "string" when text is one
sanitizeScrapedContent(a, t) ==
    IF a # "string" \/ t = <<>> THEN <<>>
    ELSE truncated(trim(replaceNonPrintable(removePhrases(t, 1))))

\* the pieces: a phrase, the same in another case, its halves, its words,
\* a no-break space, a newline and a letter
Fragments ==
    { Codes(<<"S", "i", "g", "n", " ", "i", "n">>),
      Codes(<<"s", "I", "G", "N", " ", "I", "N">>),
      Codes(<<"S", "i">>),
      Codes(<<"g", "n", " ", "i", "n">>),
      Codes(<<"S", "i", "g", "n">>),
      Codes(<<"i", "n">>),
      <<160>>, <<10>>,
      Codes(<<"x">>) }

\* MaxOutput letters: page text as long as the limit
Filler == [i \in 1..MaxOutput |-> 120]

\* the page text grows by one piece
Grow(f) ==
    /\ UNCHANGED <<scrapeVars, dispatchVars, routeVars, singleVars, gateVars>>
    /\ clean = Pending
    /\ arg = "string"
    /\ fragments < MaxFragments
    /\ Len(text) < MaxOutput
    /\ text' = text \o f
    /\ fragments' = fragments + 1
    /\ UNCHANGED <<arg, clean>>

\* the page text is long: the filler goes in front of a single character
Pad ==
    /\ UNCHANGED <<scrapeVars, dispatchVars, routeVars, singleVars, gateVars>>
    /\ clean = Pending
    /\ arg = "string"
    /\ Len(text) = 1
    /\ text' = Filler \o text
    /\ UNCHANGED <<arg, fragments, clean>>

\* the function is called without a string
Missing(a) ==
    /\ UNCHANGED <<scrapeVars, dispatchVars, routeVars, singleVars, gateVars>>
    /\ clean = Pending
    /\ arg = "string"
    /\ fragments = 0
    /\ text = <<>>
    /\ arg' = a
    /\ UNCHANGED <<text, fragments, clean>>

\* the call
Sanitize ==
    /\ UNCHANGED <<scrapeVars, dispatchVars, routeVars, singleVars, gateVars>>
    /\ clean = Pending
    /\ clean' = sanitizeScrapedContent(arg, text)
    /\ UNCHANGED <<arg, text, fragments>>

NextSanitize ==
    \/ \E f \in Fragments : Grow(f)
    \/ Pad
    \/ \E a \in {"undefined", "null"} : Missing(a)
    \/ Sanitize

SpecSanitize == Init /\ [][NextSanitize]_vars

\* C18: whatever the input string, the text sanitizeScrapedContent returns
\* holds no occurrence, in any case, of a phrase of the removal list.
C18_NoPhraseLeft ==
    clean # Pending => \A i \in 1..Len(clean) : PhrasesAt(clean, i) = {}

\* C19: the text sanitizeScrapedContent returns has at most 18000
\* characters, each of them printable ASCII (0x20..0x7E) or a newline, and
\* it is the empty string when the input is empty or missing.
C19_BoundedPrintable ==
    clean # Pending =>
        /\ Len(clean) <= MaxOutput
        /\ \A i \in 1..Len(clean) : clean[i] \in (32..126) \cup {10}
        /\ (arg # "string" \/ text = <<>>) => clean = <<>>

C19_Witness ==
    /\ clean # Pending
    /\ Len(text) > MaxOutput
    /\ Len(clean) = MaxOutput
    /\ text[Len(text)] = 120

\* ------------------------------------------- claims on the tier loop
\* the observed dispatch takes a step out of an awaited fetch
AnswerHandled ==
    /\ dpc[Observed] = "fetch"
    /\ dpc'[Observed] # "fetch" \/ requests' = requests + 1

\* C22: callLlamaSmart attempts the tiers in MODELS order: its first request
\* is for the first tier, a request for tier j+1 is issued only when tier j
\* has ended without a result, and once a request has succeeded the dispatch
\* returns that response and issues no further request.
C22_TiersInOrder ==
    [][ /\ requests' = requests + 1 =>
              \/ dpc[Observed] = "idle" /\ modelIdx'[Observed] = 1
              \/ dpc[Observed] = "fetch"
                    /\ modelIdx'[Observed] = modelIdx[Observed]
              \/ dpc[Observed] = "tierFail"
                    /\ modelIdx'[Observed] = modelIdx[Observed] + 1
        /\ (dpc[Observed] = "fetch" /\ dpc'[Observed] = "returned") =>
              /\ response' = <<modelIdx[Observed], currentKey>>
              /\ requests' = requests
        /\ dpc[Observed] = "returned" =>
              /\ dpc'[Observed] = "returned"
              /\ requests' = requests
              /\ response' = response ]_vars

\* the second tier served after the first tier used up every credential
C22_Witness ==
    /\ dpc[Observed] = "returned"
    /\ response[1] = 2
    /\ nKeys = MaxKeys
    /\ requests = nKeys + 1

\* C23 (as claimed): an attempt that fails with anything but a rate-limit
\* signal advances the cursor and counts as one tried credential, so a tier
\* is left only by a result or by the exhaustion of its credentials.  The
\* code breaks it for a failure whose message holds the word fetch.
C23_FailureRotates ==
    [][ (AnswerHandled /\ dpc'[Observed] # "returned") =>
            /\ rotations' = rotations + 1
            /\ currentKeyIndex' = (currentKeyIndex + 1) % nKeys
            /\ dpc'[Observed] = "tierFail" =>
                  (thrown' = "AllKeysExhausted" /\ Cardinality(attempted') <= nKeys
                     /\ keysTriedForThisModel[Observed] + 1 = nKeys) ]_vars

\* C24 (as claimed): when the tier's last credential got a non-2xx answer
\* that is no rate-limit signal, the failure the tier reports carries the
\* endpoint's message or API Error: <status>.  The code reports
\* AllKeysExhausted and drops the message.
C24_TierReportsApiError ==
    (dpc[Observed] = "tierFail" /\ caught = "API Error") => thrown = "API Error"

\* ---------------------------------------------- callLlamaWithRetry
\* callLlamaWithRetry(messages, retries = 5)
retries == 5

\* const defaultDelays = [1000, 2000, 4000, 8000, 16000]
defaultDelays == <<1000, 2000, 4000, 8000, 16000>>

\* what a request can end in: a 2xx, a 429, a 503, a body whose error.type
\* is rate_limit_reached, another non-2xx, or fetch / response.json rejecting
RetryOutcomes == {"ok", "429", "503", "error", "network"}

\* the message of the error a failed request ends in:
\* result.error?.message || `API Error: ${response.status}`, or the message
\* of the rejection
ErrorMessage(o) ==
    CASE o = "429" -> <<"API Error: ", "429">>
      [] o = "503" -> <<"API Error: ", "503">>
      [] o = "error" -> <<"API Error: ", "500">>
      [] o = "network" -> <<"fetch failed">>

\* callLlamaWithRetry(messages) is called: i = 0 and the first fetch
callLlamaWithRetry ==
    /\ spc = "idle"
    /\ spc' = "retry.fetch"
    /\ attempt' = 0
    /\ asked' = <<1>>
    /\ UNCHANGED <<modelName, waited, answers, err>>
    /\ UNCHANGED <<scrapeVars, dispatchVars, routeVars, sanitizeVars, gateVars>>

\* (variant: the 429 / 503 branch waits and continues on the last pass too)
RetryAnsweredAlwaysWaiting(o) ==
    /\ spc = "retry.fetch"
    /\ answers' = Append(answers, o)
    /\ IF o = "ok"
       THEN spc' = "retry.returned" /\ UNCHANGED err
       ELSE IF o \in {"429", "503"}
            THEN spc' = "retry.delay" /\ UNCHANGED err
            ELSE IF attempt = retries - 1
                 THEN spc' = "retry.threw" /\ err' = ErrorMessage(o)
                 ELSE spc' = "retry.delay" /\ UNCHANGED err
    /\ UNCHANGED <<modelName, attempt, waited, asked>>
    /\ UNCHANGED <<scrapeVars, dispatchVars, routeVars, sanitizeVars, gateVars>>

\* the request is answered: return result; or the 429 / 503 branch that
\* waits when i < retries - 1; or the throw of !response.ok and the catch,
\* which rethrows when i === retries - 1 and waits otherwise
RetryAnswered(o) ==
    /\ spc = "retry.fetch"
    /\ answers' = Append(answers, o)
    /\ IF o = "ok"
       THEN spc' = "retry.returned" /\ UNCHANGED err
       ELSE IF o \in {"429", "503"} /\ attempt < retries - 1
            THEN spc' = "retry.delay" /\ UNCHANGED err
            ELSE IF attempt = retries - 1
                 THEN spc' = "retry.threw" /\ err' = ErrorMessage(o)
                 ELSE spc' = "retry.delay" /\ UNCHANGED err
    /\ UNCHANGED <<modelName, attempt, waited, asked>>
    /\ UNCHANGED <<scrapeVars, dispatchVars, routeVars, sanitizeVars, gateVars>>

\* await new Promise(res => setTimeout(res, defaultDelays[i])) is over: i++,
\* the loop test i < retries, and the next fetch; when the test fails the
\* function ends with no return statement, that is with undefined
RetryDelayDone ==
    /\ spc = "retry.delay"
    /\ waited' = Append(waited, defaultDelays[attempt + 1])
    /\ attempt' = attempt + 1
    /\ IF attempt + 1 < retries
       THEN /\ asked' = Append(asked, 1)
            /\ spc' = "retry.fetch"
       ELSE /\ spc' = "retry.undefined"
            /\ UNCHANGED asked
    /\ UNCHANGED <<modelName, answers, err>>
    /\ UNCHANGED <<scrapeVars, dispatchVars, routeVars, sanitizeVars, gateVars>>

NextRetry ==
    \/ callLlamaWithRetry
    \/ \E o \in RetryOutcomes : RetryAnswered(o)
    \/ RetryDelayDone

SpecRetry == Init /\ [][NextRetry]_vars

\* C26 (as claimed): against an endpoint that always answers 429 or 503
\* callLlamaWithRetry waits 1s, 2s, 4s, 8s and 16s, each once and in that
\* order, and then throws.  The code throws after the fifth request, having
\* waited four delays only.
C26_FiveDelaysThenThrow ==
    (spc = "retry.threw" /\ \A k \in 1..Len(answers) : answers[k] \in {"429", "503"})
        => waited = defaultDelays

\* --------------------------------- callLlamaSmart of the single-key snapshot
\* tryCall(modelName, retries = 2)
tryCallRetries == 2

\* const delays = [1000, 2000]
delays == <<1000, 2000>>

SmartOutcomes == {"ok", "429", "limit", "error", "network"}

\* response.status === 429 || (result.error && result.error.type ===
\* 'rate_limit_reached')
RateLimited == {"429", "limit"}

\* the message of what tryCall throws for an answer o of model m
TryError(o, m) ==
    IF o \in RateLimited
    THEN <<"Limit reached for ", MODELS[m]>>
    ELSE ErrorMessage(o)

\* (variant: the catch of tryCall rethrows on the last attempt only)
RethrownLastOnly(o, k) == k = tryCallRetries - 1

\* catch (err) { if (err.name === "RateLimitError") throw err;
\* if (i === retries - 1) throw err; ... }
Rethrown(o, k) == o \in RateLimited \/ k = tryCallRetries - 1

\* callLlamaSmart(messages) is called: the first model's first fetch
callLlamaSmartSingleKey ==
    /\ spc = "idle"
    /\ spc' = "smart.fetch"
    /\ modelName' = 1
    /\ attempt' = 0
    /\ asked' = <<1>>
    /\ UNCHANGED <<waited, answers, err>>
    /\ UNCHANGED <<scrapeVars, dispatchVars, routeVars, sanitizeVars, gateVars>>

\* the request is answered: return result; or tryCall throws and the catch
\* of the model loop sets lastError and goes on to the next model, throwing
\* All models exhausted after the last; or tryCall's catch waits
TryAnswered(o) ==
    /\ spc = "smart.fetch"
    /\ answers' = Append(answers, o)
    /\ IF o = "ok"
       THEN /\ spc' = "smart.returned"
            /\ UNCHANGED <<modelName, attempt, asked, err>>
       ELSE IF Rethrown(o, attempt)
            THEN IF modelName < Len(MODELS)
                 THEN /\ err' = TryError(o, modelName)
                      /\ modelName' = modelName + 1
                      /\ attempt' = 0
                      /\ asked' = Append(asked, modelName + 1)
                      /\ spc' = "smart.fetch"
                 ELSE /\ err' = <<"All models exhausted. Last error: ">>
                                   \o TryError(o, modelName)
                      /\ spc' = "smart.threw"
                      /\ UNCHANGED <<modelName, attempt, asked>>
            ELSE /\ spc' = "smart.delay"
                 /\ UNCHANGED <<modelName, attempt, asked, err>>
    /\ UNCHANGED waited
    /\ UNCHANGED <<scrapeVars, dispatchVars, routeVars, sanitizeVars, gateVars>>

\* await new Promise(res => setTimeout(res, delays[i])) is over: i++ and the
\* next fetch for the same model
TryDelayDone ==
    /\ spc = "smart.delay"
    /\ waited' = Append(waited, delays[attempt + 1])
    /\ attempt' = attempt + 1
    /\ asked' = Append(asked, modelName)
    /\ spc' = "smart.fetch"
    /\ UNCHANGED <<modelName, answers, err>>
    /\ UNCHANGED <<scrapeVars, dispatchVars, routeVars, sanitizeVars, gateVars>>

NextSingleKey ==
    \/ callLlamaSmartSingleKey
    \/ \E o \in SmartOutcomes : TryAnswered(o)
    \/ TryDelayDone

SpecSingleKey == Init /\ [][NextSingleKey]_vars

\* C29: in the single-key callLlamaSmart a rate-limit signal on a model moves
\* the dispatch to the next model at once, with no second request for that
\* model; when every request is rate-limited it issues exactly one request
\* per model, in MODELS order, and then throws All models exhausted with the
\* last error's message.
C29_RateLimitFailsOver ==
    /\ \A k \in 1..Len(answers) :
          answers[k] \in RateLimited =>
              /\ k < Len(asked) => asked[k + 1] = asked[k] + 1
              /\ k = Len(asked) =>
                    (spc = "smart.threw" /\ asked[k] = Len(MODELS))
    /\ (spc = "smart.threw" /\ \A k \in 1..Len(answers) : answers[k] \in RateLimited)
          => /\ asked = [k \in 1..Len(MODELS) |-> k]
             /\ waited = <<>>
             /\ err = <<"All models exhausted. Last error: ",
                        "Limit reached for ", MODELS[Len(MODELS)]>>

\* every model answered with a rate-limit signal, of either kind
C29_Witness ==
    /\ spc = "smart.threw"
    /\ answers = <<"429", "limit", "429">>

\* ------------------------------------------- claims on getBrowser, again
\* C27: a getBrowser call that finds globalBrowser disconnected launches
\* exactly one new browser, stores it as globalBrowser and returns it; every
\* getBrowser call after that returns this new handle while it stays
\* connected, never the old one.
C27_Relaunch ==
    [][ \A t \in Tasks :
          /\ (pc[t] = "launch" /\ pc'[t] = "newPage") =>
                /\ launched' = launched + 1
                /\ globalBrowser' = launched'
                /\ globalBrowser' # globalBrowser
                /\ globalBrowser' \in connectedSet'
                /\ browser'[t] = globalBrowser'
          /\ (pc[t] = "turn" /\ pc'[t] = "newPage") =>
                /\ browser'[t] = launched
                /\ browser'[t] = globalBrowser
                /\ browser'[t] \in connectedSet
                /\ launched' = launched
          /\ (pc[t] = "turn" /\ pc'[t] = "launch") =>
                /\ launched' = launched
                /\ \A u \in Tasks \ {t} : pc[u] # "launch" ]_vars

\* the first browser served a task and was lost; a second task launched the
\* second browser and a third was handed it while it is connected
C27_Witness ==
    /\ launched = 2
    /\ globalBrowser = 2
    /\ 2 \in connectedSet
    /\ \E t, u, w \in Tasks :
          /\ t # u
          /\ browser[w] = 1
          /\ browser[t] = 2
          /\ browser[u] = 2

\* ------------------------------------------- the gate, by order of arrival
\* an overtaken task is counted up to this many times
MaxOvertakes == 3

\* the tasks that began to wait before t did: those ahead of it in the queue,
\* or every waiting task when t is calling now
Ahead(t) ==
    IF \E k \in 1..Len(queue) : queue[k] = t
    THEN {queue[j] : j \in 1..((CHOOSE k \in 1..Len(queue) : queue[k] = t) - 1)}
    ELSE {queue[j] : j \in 1..Len(queue)}

Without(q, t) == SelectSeq(q, LAMBDA u : u # t)

\* the bookkeeping of one turn of waitForTurn's loop run by t
Arrival(t) ==
    IF GateOpen
    THEN /\ queue' = Without(queue, t)
         /\ overtaken' = [u \in Tasks |->
                             IF u = t THEN 0
                             ELSE IF u \in Ahead(t) /\ overtaken[u] < MaxOvertakes
                                  THEN overtaken[u] + 1
                                  ELSE overtaken[u]]
         /\ viaQueue' = (pc[t] = "wait")
    ELSE /\ queue' = IF pc[t] = "wait" THEN queue ELSE Append(queue, t)
         /\ UNCHANGED <<overtaken, viaQueue>>

\* a request calls extractConversationData: await waitForTurn()
GateCall(t) ==
    /\ pc[t] = "idle"
    /\ waitForTurn(t)
    /\ Arrival(t)
    /\ UNCHANGED <<globalBrowser, connectedSet, launched, page, browser,
                   released, result>>
    /\ UNCHANGED <<dispatchVars, routeVars, sanitizeVars, singleVars>>

\* (variant: a waiting task takes the permit only from the head of the queue)
GatePollInTurn(t) ==
    /\ pc[t] = "wait"
    /\ GateOpen => Head(queue) = t
    /\ waitForTurn(t)
    /\ Arrival(t)
    /\ UNCHANGED <<globalBrowser, connectedSet, launched, page, browser,
                   released, result>>
    /\ UNCHANGED <<dispatchVars, routeVars, sanitizeVars, singleVars>>

\* (variant: a waiting task sleeps once and does not run the test again)
GatePollNoRetest(t) ==
    /\ pc[t] = "wait"
    /\ UNCHANGED <<activeScrapes, pc>>
    /\ UNCHANGED <<globalBrowser, connectedSet, launched, page, browser,
                   released, result>>
    /\ UNCHANGED <<dispatchVars, routeVars, sanitizeVars, singleVars, gateVars>>

\* the 1000 ms timer of a waiting task fires: the loop test again
GatePoll(t) ==
    /\ pc[t] = "wait"
    /\ waitForTurn(t)
    /\ Arrival(t)
    /\ UNCHANGED <<globalBrowser, connectedSet, launched, page, browser,
                   released, result>>
    /\ UNCHANGED <<dispatchVars, routeVars, sanitizeVars, singleVars>>

\* the extraction of the task that holds the permit ends with
\* activeScrapes--; the task stands for the next request from then on
GateRelease(t) ==
    /\ pc[t] = "turn"
    /\ activeScrapes' = activeScrapes - 1
    /\ pc' = [pc EXCEPT ![t] = "idle"]
    /\ UNCHANGED <<globalBrowser, connectedSet, launched, page, browser,
                   released, result>>
    /\ UNCHANGED <<dispatchVars, routeVars, sanitizeVars, singleVars, gateVars>>

NextGate ==
    \/ \E t \in Tasks : GateCall(t)
    \/ \E t \in Tasks : GatePoll(t)
    \/ \E t \in Tasks : GateRelease(t)

SpecGate == Init /\ [][NextGate]_vars

\* C28: waitForTurn gives no first-come-first-served order: whenever the
\* permit is free, the next turn of any waiting task's loop takes it, however
\* many tasks began to wait before it, and so does the call of a task that
\* arrives only then; an earlier waiter can be passed by again and again.
C28_NoArrivalOrder ==
    \A t \in Tasks :
        /\ (pc[t] = "wait" /\ GateOpen) => ENABLED (GatePoll(t) /\ pc'[t] = "turn")
        /\ (pc[t] = "idle" /\ GateOpen) => ENABLED (GateCall(t) /\ pc'[t] = "turn")
        /\ pc[t] = "wait" => \E k \in 1..Len(queue) : queue[k] = t

\* the earliest waiter still waits, has been passed by MaxOvertakes times,
\* and a task that arrived after it holds the permit
C28_Witness ==
    /\ Len(queue) >= 1
    /\ overtaken[Head(queue)] = MaxOvertakes
    /\ \E u \in Tasks : pc[u] = "turn" /\ u # Head(queue)

\* ------------------------------------------ extractions that must end
\* two requests are enough for an extraction that holds the permit and one
\* that waits for it
Extractions == {1, 2}

NextExtraction ==
    \/ \E t \in Extractions : Call(t)
    \/ \E t \in Extractions : Poll(t)
    \/ \E t \in Extractions : GetBrowser(t)
    \/ \E t \in Extractions : LaunchOk(t)
    \/ \E t \in Extractions : LaunchFail(t)
    \/ \E t \in Extractions : NewPageOk(t)
    \/ \E t \in Extractions : NewPageFail(t)
    \/ \E t \in Extractions : PageStepOk(t)
    \/ \E t \in Extractions : PageStepFail(t)
    \/ \E t \in Extractions : CloseOk(t)
    \/ \E t \in Extractions : CloseFail(t)
    \/ \E t \in Extractions : CatchCloseOk(t)
    \/ \E t \in Extractions : CatchCloseFail(t)

\* what the runtime guarantees of task t: a timer fires, and an awaited call
\* that has a timeout settles (puppeteer.launch, page.goto with timeout:
\* 60000, the 4000 ms timer, the protocol calls).  The promise of the
\* auto-scroll has none: it resolves from inside the page, only when
\* totalHeight >= scrollHeight.
Settles(t) ==
    \/ Poll(t)
    \/ GetBrowser(t)
    \/ LaunchOk(t)
    \/ LaunchFail(t)
    \/ NewPageOk(t)
    \/ NewPageFail(t)
    \/ pc[t] # "scroll" /\ (PageStepOk(t) \/ PageStepFail(t))
    \/ CloseOk(t)
    \/ CloseFail(t)
    \/ CatchCloseOk(t)
    \/ CatchCloseFail(t)

SpecExtraction ==
    Init /\ [][NextExtraction]_vars /\ \A t \in Extractions : WF_vars(Settles(t))

\* C25 (as claimed): every extraction that has acquired the permit eventually
\* finishes and releases it, whatever the page does.  The code breaks it for
\* a page whose height keeps growing (the auto-scroll has no safety bound) and
\* when the catch block's page.close() rejects.
C25_HolderFinishesAndReleases ==
    \A t \in Extractions :
        (pc[t] = "turn") ~> (pc[t] = "done" /\ released[t] = 1)

\* ------------------------------------------------- claims on the cursor
\* C38: with a pool of K >= 1 credentials currentKeyIndex is an index in
\* 0..K-1 in every reachable state, for any number and interleaving of
\* dispatches, and every request is sent with a credential of the pool.
C38_CursorInPool ==
    nKeys >= 1 =>
        /\ currentKeyIndex \in 0..(nKeys - 1)
        /\ requests > 0 => currentKey \in 0..(nKeys - 1)
        /\ attempted \subseteq 0..(nKeys - 1)

\* the cursor has gone round the whole pool and is back on the first
\* credential, with a request in flight
C38_Witness ==
    /\ nKeys = MaxKeys
    /\ rotations > nKeys
    /\ currentKeyIndex = 0
    /\ dpc[Observed] = "fetch"

\* --------------------------------------- dispatches whose requests complete
\* two dispatches are enough for one that is watched and one that interferes
Callers == {1, 2}

NextCompleting ==
    \/ \E d \in Callers : callLlamaSmart(d)
    \/ \E d \in Callers : ResponseOk(d)
    \/ \E d \in Callers : \E o \in Outcomes : ResponseRotate(d, o)
    \/ \E d \in Callers : ResponseFetchError(d)
    \/ \E d \in Callers : TierFail(d)

\* each request of d completes, with whatever answer, and the code that
\* follows an answer runs
Completes(d) ==
    \/ ResponseOk(d)
    \/ \E o \in Outcomes : ResponseRotate(d, o)
    \/ ResponseFetchError(d)
    \/ TierFail(d)

SpecCompleting ==
    Init /\ [][NextCompleting]_vars /\ WF_vars(Completes(Observed))

\* C31: when each request completes, a multi-key callLlamaSmart dispatch
\* issues at most K x M requests and then returns a response or throws; with
\* K = 0 it issues no request and throws.
C31_BoundedThenEnds ==
    /\ [](requests <= nKeys * Len(MODELS))
    /\ [](nKeys = 0 => (requests = 0 /\ dpc[Observed] # "returned"))
    /\ (dpc[Observed] # "idle") ~> (dpc[Observed] \in Terminal)

\* every credential was tried on every tier before the dispatch threw
C31_Witness ==
    /\ dpc[Observed] = "threw"
    /\ nKeys = MaxKeys
    /\ requests = nKeys * Len(MODELS)

\* ------------------------------------------ a dispatch that runs alone
\* a dispatch that ended before the watched one is called had moved the
\* cursor: rotateKey()
EarlierRotates ==
    /\ dpc[Observed] = "idle"
    /\ OtherRotates

NextAlone ==
    \/ EarlierRotates
    \/ callLlamaSmart(Observed)
    \/ ResponseOk(Observed)
    \/ \E o \in Outcomes : ResponseRotate(Observed, o)
    \/ ResponseFetchError(Observed)
    \/ TierFail(Observed)

SpecAlone == Init /\ [][NextAlone]_vars

\* the tier of the watched dispatch ended with every credential tried
Exhausted ==
    /\ dpc[Observed] = "tierFail"
    /\ thrown = "AllKeysExhausted"
    /\ nKeys > 0

\* the credential the current tier's first attempt used, counted back from
\* the attempt in flight
TierStart == (currentKey + nKeys - keysTriedForThisModel[Observed]) % nKeys

\* C32: for a dispatch that runs with no other dispatch interleaved, the K
\* attempts of an exhausted tier use the K credentials in cyclic order from
\* the cursor, each exactly once; the cursor ends the tier where it began,
\* and the next tier starts from that same credential.
C32_TierGoesRoundThePool ==
    /\ [](Exhausted =>
            /\ attempted = 0..(nKeys - 1)
            /\ currentKeyIndex = (currentKey + 1) % nKeys)
    /\ [][ /\ requests' = requests + 1 => currentKey' = currentKeyIndex'
           /\ (dpc[Observed] = "fetch" /\ dpc'[Observed] = "fetch") =>
                 /\ currentKey' = (currentKey + 1) % nKeys
                 /\ currentKey' \notin attempted
                 /\ TierStart' = TierStart
           /\ (dpc[Observed] = "fetch" /\ Exhausted') =>
                 /\ keysTriedForThisModel[Observed] + 1 = nKeys
                 /\ requests' = requests
                 /\ currentKeyIndex' = TierStart
           /\ (Exhausted /\ dpc'[Observed] = "fetch") =>
                 /\ currentKey' = currentKeyIndex
                 /\ TierStart' = currentKeyIndex ]_vars

\* the second tier is exhausted like the first, both from credential 1,
\* where an earlier dispatch had left the cursor
C32_Witness ==
    /\ Exhausted
    /\ nKeys = MaxKeys
    /\ modelIdx[Observed] = 2
    /\ currentKeyIndex = 1
    /\ requests = 2 * nKeys

\* ------------------------------------------- claims on a failed dispatch
\* /api/chat answered after its dispatch threw
ChatDispatchFailed ==
    /\ route = "chat"
    /\ rpc = "responded"
    /\ dpc[Observed] = "threw"

\* C33: whenever the multi-key callLlamaSmart fails it throws the same fixed
\* error (Every account and every fallback model has hit its limit),
\* whatever the recorded last error was, also when no attempt returned a
\* rate-limit signal.
C33_OneFixedError ==
    /\ ChatDispatchFailed =>
          reply = Failure("CRITICAL: Every account and every fallback model has hit its limit.")
    /\ (route = "chat" /\ rpc = "responded" /\ historyOk /\ ~reply.success)
          => dpc[Observed] = "threw"

\* every tier ended in a fetch failure on its first attempt: no rate-limit
\* signal was received and lastError is the fetch failure
C33_Witness ==
    /\ ChatDispatchFailed
    /\ nKeys >= 1
    /\ requests = Len(MODELS)
    /\ rotations = 0
    /\ lastError = "fetch"
    /\ ~onlyRateLimits

\* --------------------------------------------- claims on the counter
\* C34: in every reachable state, for any interleaving of extraction tasks,
\* activeScrapes is never negative and is the number of tasks that have
\* returned from waitForTurn and have not yet decremented it; no task
\* decrements it twice.
C34_CounterCountsHolders ==
    /\ activeScrapes >= 0
    /\ activeScrapes = Cardinality({t \in Tasks : Holding(t)})
    /\ \A t \in Tasks : released[t] <= 1
    /\ \A t \in Tasks : pc[t] \in {"idle", "wait"} => released[t] = 0

\* a task went through the catch block, closed its page and released; the
\* next one holds the permit and reads the page
C34_Witness ==
    \E t, u \in Tasks :
        /\ pc[t] = "done"
        /\ result[t] = "DATA_ERROR"
        /\ page[t] = "closed"
        /\ released[t] = 1
        /\ pc[u] = "harvest"
        /\ activeScrapes = 1

\* the awaits between waitForTurn and the end of extractConversationData
Working == {"turn", "launch", "newPage", "close", "catchClose"} \cup PageAwaits

\* C35: getBrowser, newPage and every page operation are executed only by a
\* task that holds the permit, and the page is closed before the permit is
\* released: in every reachable state the open pages are at most
\* activeScrapes, hence at most one.
C35_PagesUnderPermit ==
    /\ \A t \in Tasks : pc[t] \in Working => Holding(t)
    /\ \A t \in Tasks : page[t] = "open" => Holding(t)
    /\ \A t \in Tasks : released[t] > 0 => page[t] # "open"
    /\ Cardinality({t \in Tasks : page[t] = "open"}) <= activeScrapes
    /\ activeScrapes <= MAX_CONCURRENT_SCRAPES

\* one page is open, its task navigating; an earlier task closed its page
\* and released, another one waits at the gate
C35_Witness ==
    \E t, u, w \in Tasks :
        /\ pc[t] = "goto"
        /\ page[t] = "open"
        /\ pc[u] = "done"
        /\ page[u] = "closed"
        /\ released[u] = 1
        /\ result[u] = "text"
        /\ pc[w] = "wait"

\* ------------------------------------------ claims on callLlamaWithRetry
\* C37: callLlamaWithRetry with retries = 5 issues at most 5 requests; it
\* returns the response of the first request answered 2xx and issues none
\* after it; every failed request before the fifth is followed by a retry,
\* whatever the failure was; after a fifth failure it throws; it never
\* returns undefined.
C37_RetryUntilFifth ==
    /\ [](/\ Len(asked) <= retries
          /\ spc # "retry.undefined"
          /\ spc = "retry.returned" =>
                /\ answers[Len(answers)] = "ok"
                /\ \A k \in 1..(Len(answers) - 1) : answers[k] # "ok"
                /\ Len(asked) = Len(answers)
          /\ spc = "retry.threw" =>
                /\ Len(answers) = retries
                /\ \A k \in 1..Len(answers) : answers[k] # "ok"
          /\ \A k \in 1..Len(answers) :
                (answers[k] # "ok" /\ k < retries) =>
                    \/ Len(asked) > k
                    \/ spc = "retry.delay" /\ k = Len(answers))
    /\ [][ /\ spc = "retry.delay" =>
                (spc' = "retry.fetch" /\ asked' = Append(asked, 1))
           /\ spc \in {"retry.returned", "retry.threw"} =>
                (spc' = spc /\ asked' = asked) ]_vars

\* four failures of four kinds, each retried, and the fifth request answered
C37_Witness ==
    /\ spc = "retry.returned"
    /\ answers = <<"429", "error", "network", "503", "ok">>
    /\ Len(waited) = 4

\* ------------------------------------------------ the gate, with timers
\* what the claim supposes: the poll timer of a waiting task keeps firing and
\* a task that holds the permit decrements activeScrapes
SpecGateFair ==
    /\ Init
    /\ [][NextGate]_vars
    /\ \A t \in Tasks : WF_vars(GatePoll(t))
    /\ \A t \in Tasks : WF_vars(GateRelease(t))

\* C36 (as claimed): if every holder eventually decrements activeScrapes and
\* the poll timers keep firing, then whenever tasks are waiting in
\* waitForTurn some waiting task eventually acquires the permit.
C36_SomeWaiterAcquires ==
    (queue # <<>>) ~> (\E t \in Tasks : pc[t] = "turn" /\ viaQueue)

\* C36 (amended): under the same suppositions, whenever tasks are waiting and
\* the permit is free, the permit is eventually taken, by a waiting task or
\* by a task that calls waitForTurn meanwhile: the gate does not deadlock
\* below the ceiling.
C36_FreePermitIsTaken ==
    (queue # <<>> /\ GateOpen) ~> ~GateOpen

\* a task that had waited holds the permit while another still waits
C36_Witness ==
    /\ queue # <<>>
    /\ viaQueue
    /\ \E t \in Tasks : pc[t] = "turn"

====
